---- MODULE Spec2Model ----
(***************************************************************************)
(* Request validation of the posts API                                     *)
(* (hono-vercel/src/types/validation.schemas.ts): the BaseValidator        *)
(* contract, the create / update / list-query validators and the shared    *)
(* validationSchemas singletons.                                           *)
(* With it the error taxonomy of the same API (hono-vercel/src/db/         *)
(* schema.ts: ApiError and its variants, ErrorFactory, ErrorUtils,         *)
(* ErrorResponseBuilder) and the POST /user handler of the Elysia server   *)
(* (unnamed/part_004, part_002).                                           *)
(*                                                                         *)
(* JavaScript values are records tagged with their kind.  A string is the  *)
(* sequence of its characters, a number is kept as twice its value (so     *)
(* that 1.5 is a value of the model), NaN is a number with nan = TRUE.     *)
(***************************************************************************)
EXTENDS Integers, Sequences, FiniteSets, TLC

VARIABLES
    errors,   \* errors[k]: the field `errors` of the validator instance k
    req,      \* req[u]: the request unit u is handling: [kind, data]
    pc,       \* pc[u]: where unit u is in its validate() call
    result,   \* result[u]: the local `result` object of unit u's validateData
    validatedData, \* validatedData[u]: what validateData returned to validate
    ret,      \* ret[u]: what validate() returned to unit u
    held,     \* held[u]: the request and the result of unit u's previous call
    shared,   \* shared[k]: who holds the very array that is this.errors of k
    classified, \* classified[u]: what ErrorUtils.toApiError gave unit u
    retryable,  \* retryable[u]: what ErrorUtils.isRetryableError gave unit u
    extracted,  \* extracted[u]: what ErrorUtils.getValidationErrors gave u
    response, \* response[u]: the Response ErrorResponseBuilder.error built
    users,    \* the rows of the user table of the Elysia server's store
    handlers, \* handlers[h]: the POST /user handler run h: its locals, its pc
    creates   \* the prisma.user.create calls issued so far, in order

vars == <<errors, req, pc, result, validatedData, ret, held, shared,
          classified, retryable, extracted, response, users, handlers,
          creates>>

\* what the error utilities write, and what the POST /user handlers write
ErrorVars == <<classified, retryable, extracted, response>>
UserVars == <<users, handlers, creates>>

\* ------------------------------------------------------------------------
\* Bounds of the model and constants of the program
\* ------------------------------------------------------------------------

\* spaces put before and after a padded input string
MaxPad == 1
\* request-handling units that share the validator instances
NumUnits == 2
\* longest tagIds array of the generated request bodies
MaxTags == 2

TitleMax == 255
DescriptionMax == 500
ReadTimeMax == 50
SearchMax == 255
LimitMax == 100

\* ------------------------------------------------------------------------
\* JavaScript values
\* ------------------------------------------------------------------------

Undef == [t |-> "undefined"]
Null == [t |-> "null"]
Bool(b) == [t |-> "boolean", b |-> b]
\* the number n
Num(n) == [t |-> "number", nan |-> FALSE, inf |-> FALSE, twice |-> 2 * n]
\* the number n + 0.5
NumHalf(n) ==
    [t |-> "number", nan |-> FALSE, inf |-> FALSE, twice |-> 2 * n + 1]
NaN == [t |-> "number", nan |-> TRUE, inf |-> FALSE, twice |-> 0]
\* Infinity and -Infinity: `twice` lies beyond every finite number used
Infinity ==
    [t |-> "number", nan |-> FALSE, inf |-> TRUE, twice |-> 1073741824]
NegInfinity ==
    [t |-> "number", nan |-> FALSE, inf |-> TRUE, twice |-> -1073741824]
Str(s) == [t |-> "string", s |-> s]
Arr(a) == [t |-> "array", a |-> a]
Obj(f) == [t |-> "object", f |-> f]
EmptyFields == [k \in {} |-> Undef]

\* `!v`
Falsy(v) ==
    \/ v.t \in {"undefined", "null"}
    \/ v.t = "boolean" /\ ~v.b
    \/ v.t = "number" /\ (v.nan \/ v.twice = 0)
    \/ v.t = "string" /\ v.s = <<>>

\* `typeof v === "object"`
TypeofObject(v) == v.t \in {"object", "array", "null"}

\* `input.key` of `input = data as Record<string, unknown>`
Get(data, key) ==
    IF data.t = "object" /\ key \in DOMAIN data.f THEN data.f[key] ELSE Undef

IsInteger(v) == v.t = "number" /\ ~v.nan /\ ~v.inf /\ v.twice % 2 = 0

\* ------------------------------------------------------------------------
\* Strings
\* ------------------------------------------------------------------------

Whitespace == {" "}

Rep(c, n) == [i \in 1..n |-> c]

\* the lowest and the highest of a set of positions, `none` if it is empty
Lowest(positions, none) ==
    IF positions = {} THEN none
    ELSE CHOOSE j \in positions : \A k \in positions : j <= k

Highest(positions, none) ==
    IF positions = {} THEN none
    ELSE CHOOSE j \in positions : \A k \in positions : j >= k

\* the first position from i on that holds no white space (Len(s) + 1 if none)
FirstKept(s, i) ==
    IF i > Len(s) \/ s[i] \notin Whitespace THEN i
    ELSE Lowest({j \in i..Len(s) : s[j] \notin Whitespace}, Len(s) + 1)

\* the last position up to i that holds no white space (0 if none)
LastKept(s, i) ==
    IF i < 1 \/ s[i] \notin Whitespace THEN i
    ELSE Highest({j \in 1..i : s[j] \notin Whitespace}, 0)

\* String.prototype.trim
Trim(s) ==
    LET lo == FirstKept(s, 1)
        hi == LastKept(s, Len(s))
    IN  IF lo > hi THEN <<>> ELSE SubSeq(s, lo, hi)

Letters == {"a", "b", "d", "h", "i", "m", "n", "o", "p", "s", "t", "x", "y",
            "B", "H"}
SchemeChars ==
    Letters \cup {"0", "1", "2", "3", "4", "5", "6", "7", "8", "9", "+", "-", "."}
\* schemes whose URL must name a host
SpecialSchemes == {<<"h", "t", "t", "p">>, <<"h", "t", "t", "p", "s">>}

\* `new URL(url)` without a base: leading and trailing spaces are stripped,
\* then the input must start with a scheme (a letter, then letters, digits,
\* "+", "-", ".") followed by ":", and an http(s) URL must name a host;
\* anything else throws.
UrlParses(s) ==
    LET u == Trim(s)
    IN  \E c \in 2..Len(u) :
            /\ u[c] = ":"
            /\ u[1] \in Letters
            /\ \A j \in 2..(c - 1) : u[j] \in SchemeChars
            /\ SubSeq(u, 1, c - 1) \in SpecialSchemes
                => \E j \in (c + 1)..Len(u) : u[j] # "/"

\* ------------------------------------------------------------------------
\* ValidationUtils
\* ------------------------------------------------------------------------

isString(v) == v.t = "string"

isNumber(v) == v.t = "number" /\ ~v.nan

isArray(v) == v.t = "array"

isValidUrl(s) == UrlParses(s)

sanitizeString(s) == Trim(s)

\* ------------------------------------------------------------------------
\* BaseValidator: the error accumulator
\* ------------------------------------------------------------------------

\* the state a validateData call works on: `this.errors` and the local `result`
St(errs, res) == [errors |-> errs, result |-> res]

\* addError putting the new entry in front of the earlier ones
addErrorFront(st, field, message, code) ==
    [st EXCEPT !.errors =
        <<[field |-> field, message |-> message, code |-> code]>> \o @]

\* addError: this.errors.push({ field, message, code })
addError(st, field, message, code) ==
    [st EXCEPT !.errors =
        Append(@, [field |-> field, message |-> message, code |-> code])]

\* `protected errors: ValidationError[] = []` of a new validator
NewErrors == <<>>

\* clearErrors that leaves the accumulated errors in place
clearErrorsKeep(errs) == errs

\* clearErrors: this.errors = []
clearErrors(errs) == <<>>

\* result.key = v
Put(st, key, v) == [st EXCEPT !.result = (key :> v) @@ @]

\* `tagIds[${i}]`, i the 0-based index
TagField(i) == "tagIds[" \o ToString(i) \o "]"

\* ------------------------------------------------------------------------
\* CreatePostValidator.validateData, field by field
\* ------------------------------------------------------------------------

\* the title checks without the short circuit: every failing rule reported
CreateTitleAllRules(input, st) ==
    LET v == Get(input, "title")
        s1 == IF Falsy(v)
                THEN addError(st, "title", "Title is required", "REQUIRED")
                ELSE st
        s2 == IF ~Falsy(v) /\ ~isString(v)
                THEN addError(s1, "title", "Title must be a string",
                              "INVALID_TYPE")
                ELSE s1
        s3 == IF isString(v) /\ Len(Trim(v.s)) = 0
                THEN addError(s2, "title", "Title cannot be empty",
                              "EMPTY_VALUE")
                ELSE s2
        s4 == IF isString(v) /\ Len(v.s) > TitleMax
                THEN addError(s3, "title", "Title cannot exceed 255 characters",
                              "MAX_LENGTH")
                ELSE s3
    IN  IF s4 = st THEN Put(st, "title", Str(sanitizeString(v.s))) ELSE s4

CreateTitle(input, st) ==
    LET v == Get(input, "title")
    IN  IF Falsy(v) THEN addError(st, "title", "Title is required", "REQUIRED")
        ELSE IF ~isString(v)
            THEN addError(st, "title", "Title must be a string", "INVALID_TYPE")
        ELSE IF Len(Trim(v.s)) = 0
            THEN addError(st, "title", "Title cannot be empty", "EMPTY_VALUE")
        ELSE IF Len(v.s) > TitleMax
            THEN addError(st, "title", "Title cannot exceed 255 characters",
                          "MAX_LENGTH")
        ELSE Put(st, "title", Str(sanitizeString(v.s)))

\* content checked only while no error has been recorded
CreateContentFailFast(input, st) ==
    LET v == Get(input, "content")
    IN  IF Len(st.errors) > 0 THEN st
        ELSE IF Falsy(v)
            THEN addError(st, "content", "Content is required", "REQUIRED")
        ELSE IF ~isString(v)
            THEN addError(st, "content", "Content must be a string",
                          "INVALID_TYPE")
        ELSE IF Len(Trim(v.s)) = 0
            THEN addError(st, "content", "Content cannot be empty",
                          "EMPTY_VALUE")
        ELSE Put(st, "content", Str(sanitizeString(v.s)))

CreateContent(input, st) ==
    LET v == Get(input, "content")
    IN  IF Falsy(v)
            THEN addError(st, "content", "Content is required", "REQUIRED")
        ELSE IF ~isString(v)
            THEN addError(st, "content", "Content must be a string",
                          "INVALID_TYPE")
        ELSE IF Len(Trim(v.s)) = 0
            THEN addError(st, "content", "Content cannot be empty",
                          "EMPTY_VALUE")
        ELSE Put(st, "content", Str(sanitizeString(v.s)))

CreateCategoryId(input, st) ==
    LET v == Get(input, "categoryId")
    IN  IF Falsy(v)
            THEN addError(st, "categoryId", "Category ID is required",
                          "REQUIRED")
        ELSE IF ~isNumber(v)
            THEN addError(st, "categoryId", "Category ID must be a number",
                          "INVALID_TYPE")
        ELSE IF v.twice <= 0
            THEN addError(st, "categoryId",
                          "Category ID must be a positive number",
                          "INVALID_VALUE")
        ELSE Put(st, "categoryId", v)

CreateDescription(input, st) ==
    LET v == Get(input, "description")
    IN  IF v = Undef THEN st
        ELSE IF ~isString(v)
            THEN addError(st, "description", "Description must be a string",
                          "INVALID_TYPE")
        ELSE IF Len(v.s) > DescriptionMax
            THEN addError(st, "description",
                          "Description cannot exceed 500 characters",
                          "MAX_LENGTH")
        ELSE Put(st, "description", Str(sanitizeString(v.s)))

CreateCoverImageUrl(input, st) ==
    LET v == Get(input, "coverImageUrl")
    IN  IF v = Undef THEN st
        ELSE IF ~isString(v)
            THEN addError(st, "coverImageUrl",
                          "Cover image URL must be a string", "INVALID_TYPE")
        ELSE IF Len(v.s) > 0 /\ ~isValidUrl(v.s)
            THEN addError(st, "coverImageUrl",
                          "Cover image URL must be a valid URL", "INVALID_URL")
        ELSE Put(st, "coverImageUrl", v)

\* the loop over tagIds: acc = [st, valid], i the 1-based position
\* the loop dropping the rejected elements without an error
RECURSIVE CreateTagLoopSilent(_, _, _)
CreateTagLoopSilent(tagIds, i, acc) ==
    IF i > Len(tagIds) THEN acc
    ELSE CreateTagLoopSilent(tagIds, i + 1,
            IF ~isNumber(tagIds[i]) \/ tagIds[i].twice <= 0 THEN acc
            ELSE [acc EXCEPT !.valid = Append(@, tagIds[i])])

RECURSIVE CreateTagLoop(_, _, _)
CreateTagLoop(tagIds, i, acc) ==
    IF i > Len(tagIds) THEN acc
    ELSE CreateTagLoop(tagIds, i + 1,
            IF ~isNumber(tagIds[i])
                THEN [acc EXCEPT !.st = addError(@, TagField(i - 1),
                          "Tag ID must be a number", "INVALID_TYPE")]
            ELSE IF tagIds[i].twice <= 0
                THEN [acc EXCEPT !.st = addError(@, TagField(i - 1),
                          "Tag ID must be a positive number", "INVALID_VALUE")]
            ELSE [acc EXCEPT !.valid = Append(@, tagIds[i])])

CreateTagIds(input, st) ==
    LET v == Get(input, "tagIds")
    IN  IF v = Undef THEN st
        ELSE IF ~isArray(v)
            THEN addError(st, "tagIds", "Tag IDs must be an array",
                          "INVALID_TYPE")
        ELSE LET done == CreateTagLoop(v.a, 1, [st |-> st, valid |-> <<>>])
             IN  IF Len(done.valid) > 0
                     THEN Put(done.st, "tagIds", Arr(done.valid))
                     ELSE done.st

CreateReadTime(input, st) ==
    LET v == Get(input, "readTime")
    IN  IF v = Undef THEN st
        ELSE IF ~isString(v)
            THEN addError(st, "readTime", "Read time must be a string",
                          "INVALID_TYPE")
        ELSE IF Len(v.s) > ReadTimeMax
            THEN addError(st, "readTime",
                          "Read time cannot exceed 50 characters", "MAX_LENGTH")
        ELSE Put(st, "readTime", Str(sanitizeString(v.s)))

\* `if (!data || typeof data !== "object")`
NotAnObject(data) == Falsy(data) \/ ~TypeofObject(data)

\* the root check without its addError
CreateRootSilent(st) == st

CreateRoot(st) ==
    addError(st, "root", "Request body must be an object", "INVALID_TYPE")

\* ------------------------------------------------------------------------
\* UpdatePostValidator.validateData, field by field
\* ------------------------------------------------------------------------

UpdateTitle(input, st) ==
    LET v == Get(input, "title")
    IN  IF v = Undef THEN st
        ELSE IF ~isString(v)
            THEN addError(st, "title", "Title must be a string", "INVALID_TYPE")
        ELSE IF Len(Trim(v.s)) = 0
            THEN addError(st, "title", "Title cannot be empty", "EMPTY_VALUE")
        ELSE IF Len(v.s) > TitleMax
            THEN addError(st, "title", "Title cannot exceed 255 characters",
                          "MAX_LENGTH")
        ELSE Put(st, "title", Str(sanitizeString(v.s)))

UpdateContent(input, st) ==
    LET v == Get(input, "content")
    IN  IF v = Undef THEN st
        ELSE IF ~isString(v)
            THEN addError(st, "content", "Content must be a string",
                          "INVALID_TYPE")
        ELSE IF Len(Trim(v.s)) = 0
            THEN addError(st, "content", "Content cannot be empty",
                          "EMPTY_VALUE")
        ELSE Put(st, "content", Str(sanitizeString(v.s)))

UpdateCategoryId(input, st) ==
    LET v == Get(input, "categoryId")
    IN  IF v = Undef THEN st
        ELSE IF ~isNumber(v)
            THEN addError(st, "categoryId", "Category ID must be a number",
                          "INVALID_TYPE")
        ELSE IF v.twice <= 0
            THEN addError(st, "categoryId",
                          "Category ID must be a positive number",
                          "INVALID_VALUE")
        ELSE Put(st, "categoryId", v)

UpdateDescription(input, st) ==
    LET v == Get(input, "description")
    IN  IF v = Undef THEN st
        ELSE IF ~isString(v)
            THEN addError(st, "description", "Description must be a string",
                          "INVALID_TYPE")
        ELSE IF Len(v.s) > DescriptionMax
            THEN addError(st, "description",
                          "Description cannot exceed 500 characters",
                          "MAX_LENGTH")
        ELSE Put(st, "description", Str(sanitizeString(v.s)))

UpdateCoverImageUrl(input, st) ==
    LET v == Get(input, "coverImageUrl")
    IN  IF v = Undef THEN st
        ELSE IF ~isString(v)
            THEN addError(st, "coverImageUrl",
                          "Cover image URL must be a string", "INVALID_TYPE")
        ELSE IF Len(v.s) > 0 /\ ~isValidUrl(v.s)
            THEN addError(st, "coverImageUrl",
                          "Cover image URL must be a valid URL", "INVALID_URL")
        ELSE Put(st, "coverImageUrl", v)

RECURSIVE UpdateTagLoop(_, _, _)
UpdateTagLoop(tagIds, i, acc) ==
    IF i > Len(tagIds) THEN acc
    ELSE UpdateTagLoop(tagIds, i + 1,
            IF ~isNumber(tagIds[i])
                THEN [acc EXCEPT !.st = addError(@, TagField(i - 1),
                          "Tag ID must be a number", "INVALID_TYPE")]
            ELSE IF tagIds[i].twice <= 0
                THEN [acc EXCEPT !.st = addError(@, TagField(i - 1),
                          "Tag ID must be a positive number", "INVALID_VALUE")]
            ELSE [acc EXCEPT !.valid = Append(@, tagIds[i])])

\* tagIds assigned on update only when an element was accepted, as on create
UpdateTagIdsLikeCreate(input, st) ==
    LET v == Get(input, "tagIds")
    IN  IF v = Undef THEN st
        ELSE IF ~isArray(v)
            THEN addError(st, "tagIds", "Tag IDs must be an array",
                          "INVALID_TYPE")
        ELSE LET done == UpdateTagLoop(v.a, 1, [st |-> st, valid |-> <<>>])
             IN  IF Len(done.valid) > 0
                     THEN Put(done.st, "tagIds", Arr(done.valid))
                     ELSE done.st

UpdateTagIds(input, st) ==
    LET v == Get(input, "tagIds")
    IN  IF v = Undef THEN st
        ELSE IF ~isArray(v)
            THEN addError(st, "tagIds", "Tag IDs must be an array",
                          "INVALID_TYPE")
        ELSE LET done == UpdateTagLoop(v.a, 1, [st |-> st, valid |-> <<>>])
             IN  Put(done.st, "tagIds", Arr(done.valid))

\* readTime checked only while no error has been recorded
UpdateReadTimeFailFast(input, st) ==
    LET v == Get(input, "readTime")
    IN  IF v = Undef \/ Len(st.errors) > 0 THEN st
        ELSE IF ~isString(v)
            THEN addError(st, "readTime", "Read time must be a string",
                          "INVALID_TYPE")
        ELSE IF Len(v.s) > ReadTimeMax
            THEN addError(st, "readTime",
                          "Read time cannot exceed 50 characters", "MAX_LENGTH")
        ELSE Put(st, "readTime", Str(sanitizeString(v.s)))

UpdateReadTime(input, st) ==
    LET v == Get(input, "readTime")
    IN  IF v = Undef THEN st
        ELSE IF ~isString(v)
            THEN addError(st, "readTime", "Read time must be a string",
                          "INVALID_TYPE")
        ELSE IF Len(v.s) > ReadTimeMax
            THEN addError(st, "readTime",
                          "Read time cannot exceed 50 characters", "MAX_LENGTH")
        ELSE Put(st, "readTime", Str(sanitizeString(v.s)))

UpdateRoot(st) ==
    addError(st, "root", "Request body must be an object", "INVALID_TYPE")

\* the characters of the string literals the code and String() use
NaNChars == <<"N", "a", "N">>
InfinityChars == <<"I", "n", "f", "i", "n", "i", "t", "y">>
TrueChars == <<"t", "r", "u", "e">>
FalseChars == <<"f", "a", "l", "s", "e">>
NullChars == <<"n", "u", "l", "l">>
UndefinedChars == <<"u", "n", "d", "e", "f", "i", "n", "e", "d">>
ObjectChars == <<"[", "o", "b", "j", "e", "c", "t", " ", "O", "b", "j", "e", "c", "t", "]">>
PublishedAtChars == <<"p", "u", "b", "l", "i", "s", "h", "e", "d", "A", "t">>
CreatedAtChars == <<"c", "r", "e", "a", "t", "e", "d", "A", "t">>
TitleChars == <<"t", "i", "t", "l", "e">>
AscChars == <<"a", "s", "c">>
DescChars == <<"d", "e", "s", "c">>

\* ------------------------------------------------------------------------
\* String(v) and parseInt(s, 10)
\* ------------------------------------------------------------------------

DigitChars == <<"0", "1", "2", "3", "4", "5", "6", "7", "8", "9">>
Digits == {DigitChars[i] : i \in 1..10}
DigitVal(c) == (CHOOSE i \in 1..10 : DigitChars[i] = c) - 1

RECURSIVE NatChars(_)
NatChars(n) ==
    IF n < 10 THEN <<DigitChars[n + 1]>>
    ELSE NatChars(n \div 10) \o <<DigitChars[(n % 10) + 1]>>

\* Number.prototype.toString of n (twice = 2n) for integers and halves
NumberChars(v) ==
    IF v.nan THEN NaNChars
    ELSE IF v.inf
        THEN (IF v.twice < 0 THEN <<"-">> ELSE <<>>) \o InfinityChars
    ELSE LET mag == IF v.twice < 0 THEN 0 - v.twice ELSE v.twice
             body == NatChars(mag \div 2)
                        \o (IF mag % 2 = 1 THEN <<".", "5">> ELSE <<>>)
         IN  IF v.twice < 0 THEN <<"-">> \o body ELSE body

RECURSIVE ToStr(_)
RECURSIVE JoinComma(_, _)
\* Array.prototype.join(","): null and undefined elements give ""
JoinComma(a, i) ==
    IF i > Len(a) THEN <<>>
    ELSE (IF i > 1 THEN <<",">> ELSE <<>>)
            \o (IF a[i].t \in {"null", "undefined"} THEN <<>> ELSE ToStr(a[i]))
            \o JoinComma(a, i + 1)

\* String(v) throws a TypeError: an own property toString hides
\* Object.prototype.toString, no JSON value is callable, and valueOf gives
\* no primitive; an array throws when the String() of an element does
RECURSIVE StringThrows(_)
StringThrows(v) ==
    \/ v.t = "object" /\ "toString" \in DOMAIN v.f
    \/ /\ v.t = "array"
       /\ \E i \in 1..Len(v.a) :
              v.a[i].t \notin {"null", "undefined"} /\ StringThrows(v.a[i])

\* String(v), where it returns
ToStr(v) ==
    CASE v.t = "string" -> v.s
      [] v.t = "number" -> NumberChars(v)
      [] v.t = "boolean" -> IF v.b THEN TrueChars ELSE FalseChars
      [] v.t = "null" -> NullChars
      [] v.t = "undefined" -> UndefinedChars
      [] v.t = "array" -> JoinComma(v.a, 1)
      [] v.t = "object" -> ObjectChars

\* the value of the digits of s from position i on, acc the value so far
RECURSIVE DigitsValue(_, _, _)
DigitsValue(s, i, acc) ==
    IF i > Len(s) \/ s[i] \notin Digits THEN acc
    ELSE DigitsValue(s, i + 1, acc * 10 + DigitVal(s[i]))

\* the first position from i on that holds no character of C
RunEnd(s, i, C) ==
    LET stops == {j \in i..Len(s) : s[j] \notin C}
    IN  IF stops = {} THEN Len(s) + 1
        ELSE CHOOSE j \in stops : \A k \in stops : j <= k

\* Number.MAX_VALUE has 309 digits: a longer run of digits, leading zeros
\* apart, lies beyond the Number range
MaxFiniteDigits == 309

\* parseInt(s, 10): leading white space skipped, an optional sign, then the
\* longest run of digits; NaN when there is none, and the mathematical
\* value as a Number, the infinities included
\* the number of the run of digits of s that begins at `start`
ParseDigits(s, start, negative) ==
    IF start > Len(s) \/ s[start] \notin Digits THEN NaN
    ELSE IF RunEnd(s, start, Digits) - RunEnd(s, start, {"0"}) > MaxFiniteDigits
        THEN (IF negative THEN NegInfinity ELSE Infinity)
    ELSE Num((IF negative THEN -1 ELSE 1) * DigitsValue(s, start, 0))

\* the sign, if any, at position `first` of s and the digits after it
ParseSigned(s, first) ==
    IF first <= Len(s) /\ s[first] \in {"+", "-"}
    THEN ParseDigits(s, first + 1, s[first] = "-")
    ELSE ParseDigits(s, first, FALSE)

parseInt(s) == ParseSigned(s, FirstKept(s, 1))

\* String.prototype.split(",")
RECURSIVE SplitComma(_)
SplitComma(s) ==
    LET commas == {i \in 1..Len(s) : s[i] = ","}
    IN  IF commas = {} THEN <<s>>
        ELSE LET c == CHOOSE i \in commas : \A j \in commas : i <= j
             IN  <<SubSeq(s, 1, c - 1)>> \o SplitComma(SubSeq(s, c + 1, Len(s)))

\* ValidationUtils.parseIntegerArray
parseIntegerArray(s) ==
    LET parsed == [i \in 1..Len(SplitComma(s)) |->
                        parseInt(Trim(SplitComma(s)[i]))]
    IN  SelectSeq(parsed, LAMBDA n : ~n.nan)

\* ------------------------------------------------------------------------
\* QueryParamsValidator.validateData, field by field
\* ------------------------------------------------------------------------

QueryPage(input, st) ==
    LET v == Get(input, "page")
        page == parseInt(ToStr(v))
    IN  IF v = Undef THEN st
        ELSE IF page.nan \/ page.twice < 2
            THEN addError(st, "page", "Page must be a positive integer",
                          "INVALID_VALUE")
        ELSE Put(st, "page", page)

QueryLimit(input, st) ==
    LET v == Get(input, "limit")
        limit == parseInt(ToStr(v))
    IN  IF v = Undef THEN st
        ELSE IF limit.nan \/ limit.twice < 2
            THEN addError(st, "limit", "Limit must be a positive integer",
                          "INVALID_VALUE")
        ELSE IF limit.twice > 2 * LimitMax
            THEN addError(st, "limit", "Limit cannot exceed 100", "MAX_VALUE")
        ELSE Put(st, "limit", limit)

QueryCategoryId(input, st) ==
    LET v == Get(input, "categoryId")
        categoryId == parseInt(ToStr(v))
    IN  IF v = Undef THEN st
        ELSE IF categoryId.nan \/ categoryId.twice < 2
            THEN addError(st, "categoryId",
                          "Category ID must be a positive integer",
                          "INVALID_VALUE")
        ELSE Put(st, "categoryId", categoryId)

QueryTagIds(input, st) ==
    LET v == Get(input, "tagIds")
    IN  IF v = Undef THEN st
        ELSE IF ~isString(v)
            THEN addError(st, "tagIds",
                          "Tag IDs must be a comma-separated string",
                          "INVALID_TYPE")
        ELSE IF Len(parseIntegerArray(v.s)) = 0 /\ Len(Trim(v.s)) > 0
            THEN addError(st, "tagIds", "Tag IDs must be valid integers",
                          "INVALID_VALUE")
        ELSE Put(st, "tagIds", v)

QueryAuthorId(input, st) ==
    LET v == Get(input, "authorId")
    IN  IF v = Undef THEN st
        ELSE IF ~isString(v)
            THEN addError(st, "authorId", "Author ID must be a string",
                          "INVALID_TYPE")
        ELSE IF Len(Trim(v.s)) = 0
            THEN addError(st, "authorId", "Author ID cannot be empty",
                          "EMPTY_VALUE")
        ELSE Put(st, "authorId", Str(sanitizeString(v.s)))

QuerySearch(input, st) ==
    LET v == Get(input, "search")
    IN  IF v = Undef THEN st
        ELSE IF ~isString(v)
            THEN addError(st, "search", "Search must be a string",
                          "INVALID_TYPE")
        ELSE IF Len(v.s) > SearchMax
            THEN addError(st, "search", "Search cannot exceed 255 characters",
                          "MAX_LENGTH")
        ELSE Put(st, "search", Str(sanitizeString(v.s)))

SortByValues == {PublishedAtChars, CreatedAtChars, TitleChars}
SortOrderValues == {AscChars, DescChars}

\* sortBy taken over without the test against the allowed names
QuerySortByUnchecked(input, st) ==
    LET v == Get(input, "sortBy")
    IN  IF v = Undef THEN st
        ELSE IF ~isString(v)
            THEN addError(st, "sortBy", "Sort by must be a string",
                          "INVALID_TYPE")
        ELSE Put(st, "sortBy", v)

QuerySortBy(input, st) ==
    LET v == Get(input, "sortBy")
    IN  IF v = Undef THEN st
        ELSE IF ~isString(v)
            THEN addError(st, "sortBy", "Sort by must be a string",
                          "INVALID_TYPE")
        ELSE IF v.s \notin SortByValues
            THEN addError(st, "sortBy",
                          "Sort by must be one of: publishedAt, createdAt, title",
                          "INVALID_VALUE")
        ELSE Put(st, "sortBy", v)

\* the sort order falling back to "asc" when the query has none
QuerySortOrderDefault(input, st) ==
    LET v == Get(input, "sortOrder")
    IN  IF v = Undef THEN Put(st, "sortOrder", Str(AscChars))
        ELSE IF ~isString(v)
            THEN addError(st, "sortOrder", "Sort order must be a string",
                          "INVALID_TYPE")
        ELSE IF v.s \notin SortOrderValues
            THEN addError(st, "sortOrder",
                          "Sort order must be either 'asc' or 'desc'",
                          "INVALID_VALUE")
        ELSE Put(st, "sortOrder", v)

QuerySortOrder(input, st) ==
    LET v == Get(input, "sortOrder")
    IN  IF v = Undef THEN st
        ELSE IF ~isString(v)
            THEN addError(st, "sortOrder", "Sort order must be a string",
                          "INVALID_TYPE")
        ELSE IF v.s \notin SortOrderValues
            THEN addError(st, "sortOrder",
                          "Sort order must be either 'asc' or 'desc'",
                          "INVALID_VALUE")
        ELSE Put(st, "sortOrder", v)

\* the root check of the query blaming a field of its own
QueryRootAsField(st) ==
    addError(st, "query", "Query parameters must be an object", "INVALID_TYPE")

QueryRoot(st) ==
    addError(st, "root", "Query parameters must be an object", "INVALID_TYPE")

\* ------------------------------------------------------------------------
\* validateData and validate as whole calls
\* ------------------------------------------------------------------------

\* `return this.errors.length === 0 ? result : null`
Returned(st) ==
    [errors |-> st.errors, result |-> st.result,
     out |-> IF Len(st.errors) = 0 THEN Obj(st.result) ELSE Null]

\* `return null` after the root error
RootFailure(st) == [errors |-> st.errors, result |-> st.result, out |-> Null]

CreatePostValidateData(data, errs) ==
    LET st0 == St(errs, EmptyFields)
    IN  IF NotAnObject(data) THEN RootFailure(CreateRoot(st0))
        ELSE Returned(
                CreateReadTime(data,
                CreateTagIds(data,
                CreateCoverImageUrl(data,
                CreateDescription(data,
                CreateCategoryId(data,
                CreateContent(data,
                CreateTitle(data, st0))))))))

UpdatePostValidateData(data, errs) ==
    LET st0 == St(errs, EmptyFields)
    IN  IF NotAnObject(data) THEN RootFailure(UpdateRoot(st0))
        ELSE Returned(
                UpdateReadTime(data,
                UpdateTagIds(data,
                UpdateCoverImageUrl(data,
                UpdateDescription(data,
                UpdateCategoryId(data,
                UpdateContent(data,
                UpdateTitle(data, st0))))))))

QueryParamsValidateData(data, errs) ==
    LET st0 == St(errs, EmptyFields)
    IN  IF NotAnObject(data) THEN RootFailure(QueryRoot(st0))
        ELSE Returned(
                QuerySortOrder(data,
                QuerySortBy(data,
                QuerySearch(data,
                QueryAuthorId(data,
                QueryTagIds(data,
                QueryCategoryId(data,
                QueryLimit(data,
                QueryPage(data, st0)))))))))

\* the fields the query validator converts with String(), in source order
QueryCoerced == <<"page", "limit", "categoryId">>

\* `String(input.f)` of the n-th coerced field is reached and throws
QueryStatementThrows(input, n) ==
    /\ Get(input, QueryCoerced[n]) # Undef
    /\ StringThrows(Get(input, QueryCoerced[n]))

\* the coerced field whose statement throws first, 0 when the call returns;
\* the create and update validators convert nothing
ThrowsAt(kind, data) ==
    LET throwing == {n \in 1..Len(QueryCoerced) : QueryStatementThrows(data, n)}
    IN  IF kind # "queryParams" \/ NotAnObject(data) \/ throwing = {} THEN 0
        ELSE CHOOSE n \in throwing : \A m \in throwing : n <= m

\* the state in which the statement of the n-th coerced field starts
QueryBefore(input, st, n) ==
    CASE n = 1 -> st
      [] n = 2 -> QueryPage(input, st)
      [] n = 3 -> QueryLimit(input, QueryPage(input, st))

\* the three instances of validationSchemas
Kinds == {"createPost", "updatePost", "queryParams"}

validateData(kind, data, errs) ==
    CASE kind = "createPost" -> CreatePostValidateData(data, errs)
      [] kind = "updatePost" -> UpdatePostValidateData(data, errs)
      [] kind = "queryParams" -> QueryParamsValidateData(data, errs)

\* the result validate builds from this.errors and validatedData
ValidationResult(errs, data) ==
    IF Len(errs) > 0 THEN [success |-> FALSE, errors |-> errs]
    ELSE [success |-> TRUE, data |-> data]

\* no value returned (yet)
Pending == [t |-> "pending"]

\* BaseValidator.validate on an instance whose field `errors` holds errs:
\* the field afterwards, the locals, and the value returned, or the
\* exception of a String() passing through validateData and validate
\* validate left by the exception thrown in the state `part`
Interrupted(part) ==
    [errors |-> part.errors, result |-> part.result, out |-> Null,
     ret |-> Pending, thrown |-> TRUE]

\* validate returning after validateData gave vd
Completed(vd) ==
    [errors |-> vd.errors, result |-> vd.result, out |-> vd.out,
     ret |-> ValidationResult(vd.errors, vd.out), thrown |-> FALSE]

validate(kind, data, errs) ==
    IF ThrowsAt(kind, data) > 0
    THEN Interrupted(QueryBefore(data, St(clearErrors(errs), EmptyFields),
                                 ThrowsAt(kind, data)))
    ELSE Completed(validateData(kind, data, clearErrors(errs)))

\* ------------------------------------------------------------------------
\* Inputs
\* ------------------------------------------------------------------------

HiChars == <<"H", "i">>
BodyChars == <<"B", "o", "d", "y">>
UrlChars == <<"h", "t", "t", "p", "s", ":", "/", "/", "a", ".", "b">>
NoHostChars == <<"h", "t", "t", "p", "s", ":", "/", "/">>
NoSchemeChars == <<"a", ".", "b">>
MinChars == <<"5", " ", "m", "i", "n">>
XChars == <<"x">>

Pad(s, l, r) == Rep(" ", l) \o s \o Rep(" ", r)
\* s with up to MaxPad spaces on each side
Padded(s) == {Str(Pad(s, l, r)) : l \in 0..MaxPad, r \in 0..MaxPad}

\* arrays of at most n elements of E
ArraysOf(E, n) == UNION {[1..k -> E] : k \in 0..n}

TitleValues ==
    {Undef, Null, Num(7)} \cup Padded(<<>>) \cup Padded(HiChars)
        \cup Padded(Rep("a", TitleMax - 1)) \cup Padded(Rep("a", TitleMax))
        \cup {Str(Rep("a", TitleMax + 1)), Str(Rep(" ", TitleMax + 1))}

ContentValues ==
    {Undef, Bool(TRUE), Bool(FALSE)} \cup Padded(<<>>) \cup Padded(BodyChars)

CategoryIdValues ==
    {Undef, Null, Bool(FALSE), Str(<<>>), Str(XChars), Str(<<"1">>), NaN,
     Num(0), Num(-1), Num(1), Num(2), NumHalf(0), NumHalf(1), NumHalf(-1),
     Arr(<<Num(1)>>)}

DescriptionValues ==
    {Undef, Null, Num(5), Str(<<>>)} \cup Padded(MinChars)
        \cup Padded(Rep("a", DescriptionMax - 1))
        \cup {Str(Rep("a", DescriptionMax + 1))}

CoverImageUrlValues ==
    {Undef, Null, Num(5)} \cup Padded(<<>>) \cup Padded(UrlChars)
        \cup Padded(NoSchemeChars) \cup {Str(NoHostChars)}

TagElements == {Num(1), Num(3), Num(-2), NumHalf(1), Str(XChars)}

\* the array [1, -2, "x", 3]
MixedTagIds == Arr(<<Num(1), Num(-2), Str(XChars), Num(3)>>)

TagIdsValues ==
    {Undef, Null, Str(<<"1">>), MixedTagIds, Arr(<<Num(0)>>), Arr(<<NaN, Num(1)>>)}
        \cup {Arr(a) : a \in ArraysOf(TagElements, MaxTags)}

ReadTimeValues ==
    {Undef, Num(5), Str(<<>>)} \cup Padded(MinChars)
        \cup Padded(Rep("a", ReadTimeMax - 1))
        \cup {Str(Rep("a", ReadTimeMax + 1))}

PostFields ==
    {"title", "content", "categoryId", "description", "coverImageUrl",
     "tagIds", "readTime"}

\* the values a field of a request body ranges over
PostValues(f) ==
    CASE f = "title" -> TitleValues
      [] f = "content" -> ContentValues
      [] f = "categoryId" -> CategoryIdValues
      [] f = "description" -> DescriptionValues
      [] f = "coverImageUrl" -> CoverImageUrlValues
      [] f = "tagIds" -> TagIdsValues
      [] f = "readTime" -> ReadTimeValues

\* bodies the other fields of which are each valid or each invalid
PostBases ==
    [title : {Str(HiChars), Undef},
     content : {Str(Pad(BodyChars, 1, 1)), Undef},
     categoryId : {Num(1), Undef},
     description : {Str(Pad(MinChars, 0, 1)), Num(5)},
     coverImageUrl : {Str(UrlChars), Str(NoSchemeChars)},
     tagIds : {Arr(<<Num(3), Num(1)>>), Arr(<<Num(-2)>>)},
     readTime : {Undef, Str(Rep("a", ReadTimeMax + 1))}]

\* request bodies: a base with one field ranging over all its values
PostBodies ==
    {Obj([b EXCEPT ![f] = v]) :
        <<b, f, v>> \in {t \in PostBases \X PostFields \X
                              UNION {PostValues(g) : g \in PostFields} :
                            t[3] \in PostValues(t[2])}}

\* the body { title: "Hi", content: "Body", categoryId: 1, tagIds: [1, -2, "x", 3] }
MixedTagsBody ==
    Obj([title |-> Str(HiChars), content |-> Str(BodyChars),
         categoryId |-> Num(1), tagIds |-> MixedTagIds])

\* payloads that are not objects
MalformedRoots ==
    {Undef, Null, Bool(FALSE), Bool(TRUE), Num(0), Num(5), NaN, Str(<<>>),
     Str(XChars)}

\* arrays pass `typeof data === "object"`: objects without the fields
ArrayRoots == {Arr(<<>>), Arr(<<Num(1)>>)}

OneChars == <<"1">>
ZeroChars == <<"0">>
TenChars == <<"1", "0">>
TagListChars == <<"1", ",", "2", ",", "x", ",", "3">>
NoTagChars == <<"x", ",", "y">>
AuthorChars == <<"a", "b">>

\* the objects {} and { toString: 1 }, and the array [{ toString: null }]
PlainObject == Obj(EmptyFields)
ToStringObject == Obj([toString |-> Num(1)])
ToStringArray == Arr(<<Obj([toString |-> Null])>>)

\* a run of digits beyond the Number range
HugeChars == Rep("9", MaxFiniteDigits + 1)

PageValues ==
    {Undef, Null, Num(3), PlainObject, ToStringObject, Str(HugeChars),
     Str(<<"-">> \o HugeChars), Infinity, Num(0), NumHalf(1), NumHalf(0), Str(<<>>),
     Str(ZeroChars), Str(<<"-", "1">>), Str(<<"2", "x">>), Str(XChars)}
        \cup Padded(OneChars)

LimitValues ==
    {Undef, Num(LimitMax), Num(LimitMax + 1), Str(ZeroChars), Str(TenChars),
     Str(NatChars(LimitMax)), Str(NatChars(LimitMax + 1)), Str(XChars),
     Str(HugeChars),
     Str(<<"1", "0", ".", "9">>)}

QueryCategoryIdValues ==
    {Undef, Num(2), Num(-1), NumHalf(1), Str(OneChars), Str(ZeroChars),
     Str(XChars), Arr(<<Num(4), Num(5)>>), ToStringArray, Str(HugeChars)}

QueryTagIdsValues ==
    {Undef, Num(1), Arr(<<Num(1)>>), Str(<<",">>), Str(TagListChars),
     Str(NoTagChars), Str(<<"1", ".", "5", ",", " ", "2">>)}
        \cup Padded(<<>>) \cup Padded(OneChars)

AuthorIdValues == {Undef, Num(1)} \cup Padded(<<>>) \cup Padded(AuthorChars)

SearchValues ==
    {Undef, Num(1), Str(Rep("a", SearchMax + 1))} \cup Padded(<<>>)
        \cup Padded(HiChars) \cup Padded(Rep("a", SearchMax - 1))

SortByQueryValues ==
    {Undef, Num(1), Str(<<>>), Str(XChars), Str(PublishedAtChars),
     Str(CreatedAtChars)} \cup Padded(TitleChars)

SortOrderQueryValues ==
    {Undef, Bool(TRUE), Str(XChars), Str(<<"A", "S", "C">>), Str(DescChars)}
        \cup Padded(AscChars)

QueryFields ==
    {"page", "limit", "categoryId", "tagIds", "authorId", "search", "sortBy",
     "sortOrder"}

QueryValues(f) ==
    CASE f = "page" -> PageValues
      [] f = "limit" -> LimitValues
      [] f = "categoryId" -> QueryCategoryIdValues
      [] f = "tagIds" -> QueryTagIdsValues
      [] f = "authorId" -> AuthorIdValues
      [] f = "search" -> SearchValues
      [] f = "sortBy" -> SortByQueryValues
      [] f = "sortOrder" -> SortOrderQueryValues

QueryBases ==
    [page : {Undef, Str(ZeroChars)},
     limit : {Str(TenChars), Str(XChars)},
     categoryId : {Undef},
     tagIds : {Undef, Str(TagListChars)},
     authorId : {Undef, Str(<<" ">>)},
     search : {Undef},
     sortBy : {Str(TitleChars), Str(XChars)},
     sortOrder : {Undef}]

Queries ==
    {Obj([b EXCEPT ![f] = v]) :
        <<b, f, v>> \in {t \in QueryBases \X QueryFields \X
                              UNION {QueryValues(g) : g \in QueryFields} :
                            t[3] \in QueryValues(t[2])}}

\* a valid body and a valid query that carry keys no validator declares
ExtraKeysBody ==
    Obj([title |-> Str(HiChars), content |-> Str(BodyChars),
         categoryId |-> Num(1), authorId |-> Str(AuthorChars),
         slug |-> Str(XChars), id |-> Num(9)])

ExtraKeysQuery ==
    Obj([limit |-> Str(TenChars), offset |-> Str(ZeroChars),
         title |-> Str(HiChars)])

Request(kind, data) == [kind |-> kind, data |-> data]

\* every request of the input sweep
Requests ==
    {Request(k, d) : k \in {"createPost", "updatePost"},
                     d \in PostBodies \cup {MixedTagsBody, ExtraKeysBody}}
        \cup {Request("queryParams", d) : d \in Queries \cup {ExtraKeysQuery}}
        \cup {Request(k, d) : k \in Kinds, d \in MalformedRoots \cup ArrayRoots}

\* ------------------------------------------------------------------------
\* The validators at work
\* ------------------------------------------------------------------------

NoCall == [t |-> "none"]

\* clearErrors emptying the array in place (this.errors.length = 0)
clearErrorsSameArray == FALSE

\* `this.errors = []` makes this.errors a new array
clearErrorsNewArray == TRUE

\* A failure result holds the array this.errors itself (`errors:
\* this.errors`).  holders are the results holding the array that is
\* this.errors of one instance: <<u, "ret">> the result unit u has just
\* got, <<u, "held">> the one its caller has kept.

\* who still holds this.errors once clearErrors has run
Cleared(holders) == IF clearErrorsNewArray THEN {} ELSE holders

\* the result res of unit u holds this.errors if it is a failure
Holding(u, res) ==
    IF "success" \in DOMAIN res /\ ~res.success THEN {<<u, "ret">>} ELSE {}

\* ret and held as the holders see them when the array they hold is errs
SeenRet(holders, errs) ==
    [v \in DOMAIN ret |->
        IF <<v, "ret">> \in holders THEN [ret[v] EXCEPT !.errors = errs]
        ELSE ret[v]]

SeenHeld(holders, errs) ==
    [v \in DOMAIN held |->
        IF <<v, "held">> \in holders THEN [held[v] EXCEPT !.ret.errors = errs]
        ELSE held[v]]

\* the holders once the caller of u keeps the result it has just got
Kept(holders, u) ==
    (holders \ {<<u, "ret">>, <<u, "held">>})
        \cup (IF <<u, "ret">> \in holders THEN {<<u, "held">>} ELSE {})

\* one validate() call of unit u on the instance `kind`, run to completion
Call(u, kind) ==
    /\ pc[u] = "ready"
    /\ req[u].kind = kind
    /\ LET r == validate(kind, req[u].data, errors[kind])
       IN  /\ errors' = [errors EXCEPT ![kind] = r.errors]
           /\ result' = [result EXCEPT ![u] = r.result]
           /\ validatedData' = [validatedData EXCEPT ![u] = r.out]
           /\ ret' = [SeenRet(Cleared(shared[kind]), r.errors)
                        EXCEPT ![u] = r.ret]
           /\ held' = SeenHeld(Cleared(shared[kind]), r.errors)
           /\ shared' = [shared EXCEPT ![kind] =
                            Cleared(@) \cup Holding(u, r.ret)]
           /\ pc' = [pc EXCEPT ![u] = IF r.thrown THEN "thrown" ELSE "done"]
    /\ UNCHANGED req
    /\ UNCHANGED <<ErrorVars, UserVars>>

CreatePostValidate(u) == Call(u, "createPost")

UpdatePostValidate(u) == Call(u, "updatePost")

QueryParamsValidate(u) == Call(u, "queryParams")

\* the state of `units` before their first call, each holding a request of R
StartUnits(units, R) ==
    /\ errors = [k \in Kinds |-> NewErrors]
    /\ req \in [units -> R]
    /\ pc = [u \in units |-> "ready"]
    /\ result = [u \in units |-> EmptyFields]
    /\ validatedData = [u \in units |-> Null]
    /\ ret = [u \in units |-> Pending]
    /\ held = [u \in units |-> NoCall]
    /\ shared = [k \in Kinds |-> {}]
    /\ classified = [u \in units |-> Pending]
    /\ retryable = [u \in units |-> Pending]
    /\ extracted = [u \in units |-> Pending]
    /\ response = [u \in units |-> Pending]

\* no Elysia server running
NoServer ==
    /\ users = <<>>
    /\ handlers = <<>>
    /\ creates = <<>>

Start(units, R) == StartUnits(units, R) /\ NoServer

\* The input sweep: one call of a fresh validator on every request.
InitInputs == Start({1}, Requests)

NextInputs ==
    \/ \E u \in DOMAIN pc : CreatePostValidate(u)
    \/ \E u \in DOMAIN pc : UpdatePostValidate(u)
    \/ \E u \in DOMAIN pc : QueryParamsValidate(u)

SpecInputs == InitInputs /\ [][NextInputs]_vars

\* The singletons serving one request after the other, each validate()
\* call running to completion before the next request is taken up.
ValidBody ==
    Obj([title |-> Str(Pad(HiChars, 1, 0)), content |-> Str(BodyChars),
         categoryId |-> Num(2), tagIds |-> Arr(<<Num(3), Num(1)>>)])

SeqRequests ==
    {Request(k, d) : k \in {"createPost", "updatePost"},
                     d \in {ValidBody, MixedTagsBody, Obj(EmptyFields), Null}}
        \cup {Request("queryParams", d) :
                d \in {Obj([limit |-> Str(TenChars)]),
                       Obj([page |-> Str(ZeroChars), sortBy |-> Str(XChars)]),
                       Str(XChars)}}

\* unit u takes up its next request, its caller keeping the last result
\* or, instead, the one it has kept so far; `returned` is the content the
\* kept result had when validate() returned it
Receive(u) ==
    /\ pc[u] = "done"
    /\ \E r \in SeqRequests : req' = [req EXCEPT ![u] = r]
    /\ \/ /\ held' = [held EXCEPT ![u] = [req |-> req[u], ret |-> ret[u],
                                          returned |-> ret[u]]]
          /\ shared' = [k \in Kinds |-> Kept(shared[k], u)]
       \/ /\ held[u] # NoCall
          /\ shared' = [k \in Kinds |-> shared[k] \ {<<u, "ret">>}]
          /\ UNCHANGED held
    /\ pc' = [pc EXCEPT ![u] = "ready"]
    /\ result' = [result EXCEPT ![u] = EmptyFields]
    /\ validatedData' = [validatedData EXCEPT ![u] = Null]
    /\ ret' = [ret EXCEPT ![u] = Pending]
    /\ UNCHANGED errors
    /\ UNCHANGED <<ErrorVars, UserVars>>

Init == Start({1}, SeqRequests)

Next ==
    \/ \E u \in DOMAIN pc : CreatePostValidate(u)
    \/ \E u \in DOMAIN pc : UpdatePostValidate(u)
    \/ \E u \in DOMAIN pc : QueryParamsValidate(u)
    \/ \E u \in DOMAIN pc : Receive(u)

Spec == Init /\ [][Next]_vars

\* Request-handling units whose validate() calls on the shared singletons
\* interleave between the statements of validate and validateData.
FieldOrder(kind) ==
    IF kind = "queryParams"
    THEN <<"page", "limit", "categoryId", "tagIds", "authorId", "search",
           "sortBy", "sortOrder">>
    ELSE <<"title", "content", "categoryId", "description", "coverImageUrl",
           "tagIds", "readTime">>

\* the statement of validateData that handles field f
CheckOf(kind, f, input, st) ==
    CASE kind = "createPost" /\ f = "title" -> CreateTitle(input, st)
      [] kind = "createPost" /\ f = "content" -> CreateContent(input, st)
      [] kind = "createPost" /\ f = "categoryId" -> CreateCategoryId(input, st)
      [] kind = "createPost" /\ f = "description" -> CreateDescription(input, st)
      [] kind = "createPost" /\ f = "coverImageUrl" ->
            CreateCoverImageUrl(input, st)
      [] kind = "createPost" /\ f = "tagIds" -> CreateTagIds(input, st)
      [] kind = "createPost" /\ f = "readTime" -> CreateReadTime(input, st)
      [] kind = "updatePost" /\ f = "title" -> UpdateTitle(input, st)
      [] kind = "updatePost" /\ f = "content" -> UpdateContent(input, st)
      [] kind = "updatePost" /\ f = "categoryId" -> UpdateCategoryId(input, st)
      [] kind = "updatePost" /\ f = "description" -> UpdateDescription(input, st)
      [] kind = "updatePost" /\ f = "coverImageUrl" ->
            UpdateCoverImageUrl(input, st)
      [] kind = "updatePost" /\ f = "tagIds" -> UpdateTagIds(input, st)
      [] kind = "updatePost" /\ f = "readTime" -> UpdateReadTime(input, st)
      [] kind = "queryParams" /\ f = "page" -> QueryPage(input, st)
      [] kind = "queryParams" /\ f = "limit" -> QueryLimit(input, st)
      [] kind = "queryParams" /\ f = "categoryId" -> QueryCategoryId(input, st)
      [] kind = "queryParams" /\ f = "tagIds" -> QueryTagIds(input, st)
      [] kind = "queryParams" /\ f = "authorId" -> QueryAuthorId(input, st)
      [] kind = "queryParams" /\ f = "search" -> QuerySearch(input, st)
      [] kind = "queryParams" /\ f = "sortBy" -> QuerySortBy(input, st)
      [] kind = "queryParams" /\ f = "sortOrder" -> QuerySortOrder(input, st)

RootOf(kind, st) ==
    CASE kind = "createPost" -> CreateRoot(st)
      [] kind = "updatePost" -> UpdateRoot(st)
      [] kind = "queryParams" -> QueryRoot(st)

\* validate: this.clearErrors()
ClearErrors(u) ==
    /\ pc[u] = "ready"
    /\ errors' = [errors EXCEPT ![req[u].kind] = clearErrors(@)]
    /\ ret' = SeenRet(Cleared(shared[req[u].kind]),
                      clearErrors(errors[req[u].kind]))
    /\ held' = SeenHeld(Cleared(shared[req[u].kind]),
                        clearErrors(errors[req[u].kind]))
    /\ shared' = [shared EXCEPT ![req[u].kind] = Cleared(@)]
    /\ pc' = [pc EXCEPT ![u] = "root"]
    /\ UNCHANGED <<req, result, validatedData>>
    /\ UNCHANGED <<ErrorVars, UserVars>>

\* validateData: the check of the payload, `result = {}`
CheckRoot(u) ==
    /\ pc[u] = "root"
    /\ IF NotAnObject(req[u].data)
       THEN /\ errors' = [errors EXCEPT ![req[u].kind] =
                            RootOf(req[u].kind, St(@, EmptyFields)).errors]
            /\ ret' = SeenRet(shared[req[u].kind], errors'[req[u].kind])
            /\ held' = SeenHeld(shared[req[u].kind], errors'[req[u].kind])
            /\ validatedData' = [validatedData EXCEPT ![u] = Null]
            /\ pc' = [pc EXCEPT ![u] = "return"]
            /\ UNCHANGED result
       ELSE /\ result' = [result EXCEPT ![u] = EmptyFields]
            /\ pc' = [pc EXCEPT ![u] = FieldOrder(req[u].kind)[1]]
            /\ UNCHANGED <<errors, validatedData, ret, held>>
    /\ UNCHANGED req
    /\ UNCHANGED <<shared, ErrorVars, UserVars>>

\* validateData: the statement of the field pc[u] names
CheckField(u) ==
    LET kind == req[u].kind
        order == FieldOrder(kind)
    IN  /\ \E i \in 1..Len(order) :
              /\ pc[u] = order[i]
              /\ IF kind = "queryParams" /\ i <= Len(QueryCoerced)
                        /\ QueryStatementThrows(req[u].data, i)
                 THEN /\ pc' = [pc EXCEPT ![u] = "thrown"]
                      /\ UNCHANGED <<errors, result, ret, held>>
                 ELSE /\ LET st == CheckOf(kind, order[i], req[u].data,
                                           St(errors[kind], result[u]))
                         IN  /\ errors' = [errors EXCEPT ![kind] = st.errors]
                             /\ result' = [result EXCEPT ![u] = st.result]
                             /\ ret' = SeenRet(shared[kind], st.errors)
                             /\ held' = SeenHeld(shared[kind], st.errors)
                      /\ pc' = [pc EXCEPT ![u] =
                            IF i < Len(order) THEN order[i + 1] ELSE "result"]
        /\ UNCHANGED <<req, validatedData>>
        /\ UNCHANGED <<shared, ErrorVars, UserVars>>

\* validateData: `return this.errors.length === 0 ? result : null`
ReturnData(u) ==
    /\ pc[u] = "result"
    /\ validatedData' = [validatedData EXCEPT ![u] =
            Returned(St(errors[req[u].kind], result[u])).out]
    /\ pc' = [pc EXCEPT ![u] = "return"]
    /\ UNCHANGED <<errors, req, result, ret, held>>
    /\ UNCHANGED <<shared, ErrorVars, UserVars>>

\* validate: the result built from this.errors and validatedData
ReturnResult(u) ==
    /\ pc[u] = "return"
    /\ ret' = [ret EXCEPT ![u] =
            ValidationResult(errors[req[u].kind], validatedData[u])]
    /\ shared' = [shared EXCEPT ![req[u].kind] =
            @ \cup Holding(u, ValidationResult(errors[req[u].kind],
                                               validatedData[u]))]
    /\ pc' = [pc EXCEPT ![u] = "done"]
    /\ UNCHANGED <<errors, req, result, validatedData, held>>
    /\ UNCHANGED <<ErrorVars, UserVars>>

ConcRequests ==
    {Request("createPost", d) :
        d \in {ValidBody, MixedTagsBody, Obj(EmptyFields), Null}}

InitConc == Start(1..NumUnits, ConcRequests)

NextConc ==
    \/ \E u \in DOMAIN pc : ClearErrors(u)
    \/ \E u \in DOMAIN pc : CheckRoot(u)
    \/ \E u \in DOMAIN pc : CheckField(u)
    \/ \E u \in DOMAIN pc : ReturnData(u)
    \/ \E u \in DOMAIN pc : ReturnResult(u)

SpecConc == InitConc /\ [][NextConc]_vars

\* ------------------------------------------------------------------------
\* ApiError and its variants (src/hono-vercel/src/db/schema.ts)
\* ------------------------------------------------------------------------

\* the string of the characters chars, as a template literal pastes it
RECURSIVE Text(_)
Text(chars) == IF chars = <<>> THEN "" ELSE chars[1] \o Text(Tail(chars))

\* a `details` object: its properties in insertion order, each a field name
\* with its list of messages; no details is undefined
NoDetails == Undef
Details(entries) == [t |-> "details", entries |-> entries]
Entry(field, messages) == [field |-> field, messages |-> messages]

\* new ApiError(message, statusCode, code, details); its stack is the one
\* captured where it is constructed, proto is its prototype chain
ApiError(message, statusCode, code, details) ==
    [name |-> "ApiError", message |-> message, statusCode |-> statusCode,
     code |-> code, details |-> details, stack |-> "constructed",
     proto |-> <<"ApiError", "Error">>]

\* the forEach of the ValidationApiError constructor from error i on
RECURSIVE GroupByField(_, _, _)
GroupByField(errs, i, details) ==
    IF i > Len(errs) THEN details
    ELSE LET at == {k \in 1..Len(details) : details[k].field = errs[i].field}
         IN  GroupByField(errs, i + 1,
                IF at = {}
                THEN Append(details, Entry(errs[i].field, <<errs[i].message>>))
                ELSE [k \in 1..Len(details) |->
                        IF k \in at
                        THEN Entry(details[k].field,
                                   Append(details[k].messages, errs[i].message))
                        ELSE details[k]])

ValidationApiError(errs) ==
    [ApiError("Validation failed", 400, "VALIDATION_ERROR",
              Details(GroupByField(errs, 1, <<>>)))
        EXCEPT !.name = "ValidationApiError",
               !.proto = <<"ValidationApiError">> \o @]

NotFoundError(resource, identifier) ==
    LET message == IF ~Falsy(identifier)
                   THEN resource \o " with ID " \o Text(ToStr(identifier))
                            \o " not found"
                   ELSE resource \o " not found"
    IN  [ApiError(message, 404, "NOT_FOUND", NoDetails)
            EXCEPT !.name = "NotFoundError",
                   !.proto = <<"NotFoundError">> \o @]

ConflictError(message, details) ==
    [ApiError(message, 409, "CONFLICT", details)
        EXCEPT !.name = "ConflictError",
               !.proto = <<"ConflictError">> \o @]

\* the slug conflict without the assignment to this.code
DuplicateSlugErrorAsConflict(slug) ==
    [ConflictError("Post with slug '" \o slug \o "' already exists",
                   Details(<<Entry("slug",
                        <<"Slug '" \o slug \o "' is already in use">>)>>))
        EXCEPT !.name = "DuplicateSlugError",
               !.proto = <<"DuplicateSlugError">> \o @]

DuplicateSlugError(slug) ==
    [ConflictError("Post with slug '" \o slug \o "' already exists",
                   Details(<<Entry("slug",
                        <<"Slug '" \o slug \o "' is already in use">>)>>))
        EXCEPT !.name = "DuplicateSlugError", !.code = "DUPLICATE_SLUG",
               !.proto = <<"DuplicateSlugError">> \o @]

ForeignKeyConstraintError(field, value) ==
    [ApiError("Referenced " \o field \o " with value " \o Text(ToStr(value))
                    \o " does not exist",
              400, "FOREIGN_KEY_CONSTRAINT",
              Details(<<Entry(field,
                    <<"Referenced " \o field \o " does not exist">>)>>))
        EXCEPT !.name = "ForeignKeyConstraintError",
               !.proto = <<"ForeignKeyConstraintError">> \o @]

\* an Error object with the given stack
ErrorObject(stack) == [t |-> "error", stack |-> stack]

DatabaseError(message, originalError) ==
    [ApiError(message, 500, "DATABASE_ERROR", NoDetails)
        EXCEPT !.name = "DatabaseError",
               !.proto = <<"DatabaseError">> \o @,
               !.stack = IF ~Falsy(originalError) /\ ~Falsy(originalError.stack)
                         THEN Text(originalError.stack.s) ELSE @]

\* ------------------------------------------------------------------------
\* ErrorFactory
\* ------------------------------------------------------------------------

validation(errs) == ValidationApiError(errs)

notFound(resource, identifier) == NotFoundError(resource, identifier)

duplicateSlug(slug) == DuplicateSlugError(slug)

foreignKeyConstraint(field, value) == ForeignKeyConstraintError(field, value)

database(message, originalError) == DatabaseError(message, originalError)

conflict(message, details) == ConflictError(message, details)

\* `message: string = "Internal server error"`: the default stands in for
\* an omitted or undefined argument
internal(message) ==
    ApiError(IF message = Undef THEN "Internal server error"
             ELSE Text(message.s),
             500, "INTERNAL_ERROR", NoDetails)

\* ------------------------------------------------------------------------
\* ErrorUtils
\* ------------------------------------------------------------------------

\* a property of an object literal; a string that is kept as its text
Member(key, value) == [key |-> key, value |-> value]
Literal(text) == [t |-> "text", text |-> text]

\* ApiError.toJSON: the object literal {error: {message, code, details}}
toJSON(e) ==
    [error |-> <<Member("message", Literal(e.message)),
                 Member("code", Literal(e.code)),
                 Member("details", e.details)>>]

\* new Error(message), thrown by a collaborator
GenericError(message) ==
    [name |-> "Error", message |-> message, stack |-> "thrown",
     proto |-> <<"Error">>]

\* `x instanceof class`: class is on the prototype chain of the object x
InstanceOf(x, class) ==
    /\ "proto" \in DOMAIN x
    /\ \E i \in 1..Len(x.proto) : x.proto[i] = class

isApiError(error) == InstanceOf(error, "ApiError")

UnknownChars ==
    <<"A", "n", " ", "u", "n", "k", "n", "o", "w", "n", " ", "e", "r", "r",
      "o", "r", " ", "o", "c", "c", "u", "r", "r", "e", "d">>

\* an object constructed while toApiError runs: its stack is captured there
Within(e) == [e EXCEPT !.stack = "toApiError"]

\* toApiError handing back a copy of the ApiError it is given
toApiErrorCopy(error) ==
    IF isApiError(error) THEN Within(error)
    ELSE IF InstanceOf(error, "Error")
         THEN Within(internal(error.message))
         ELSE Within(internal(Str(UnknownChars)))

toApiError(error) ==
    IF isApiError(error) THEN error
    ELSE IF InstanceOf(error, "Error")
         THEN Within(internal(error.message))
         ELSE Within(internal(Str(UnknownChars)))

formatErrorResponse(error) == toJSON(error)

\* the retry test with 500 itself left out
isRetryableErrorAbove(error) == Bool(error.statusCode > 500)

isRetryableError(error) == Bool(error.statusCode >= 500)

\* the two forEach loops of getValidationErrors from property i on;
\* Object.entries lists the properties in insertion order, no field of a
\* validation error being an array index
RECURSIVE PushEntries(_, _, _)
PushEntries(entries, i, validationErrors) ==
    IF i > Len(entries) THEN validationErrors
    ELSE PushEntries(entries, i + 1,
            validationErrors \o
                [j \in 1..Len(entries[i].messages) |->
                    [field |-> entries[i].field,
                     message |-> entries[i].messages[j],
                     code |-> "VALIDATION_ERROR"]])

\* getValidationErrors stopping after the first message of each field
getValidationErrorsFirst(error) ==
    IF error.code # "VALIDATION_ERROR" \/ Falsy(error.details) THEN <<>>
    ELSE PushEntries([i \in 1..Len(error.details.entries) |->
                        Entry(error.details.entries[i].field,
                              SubSeq(error.details.entries[i].messages, 1, 1))],
                     1, <<>>)

getValidationErrors(error) ==
    IF error.code # "VALIDATION_ERROR" \/ Falsy(error.details) THEN <<>>
    ELSE PushEntries(error.details.entries, 1, <<>>)

\* ------------------------------------------------------------------------
\* ErrorResponseBuilder
\* ------------------------------------------------------------------------

\* JSON.stringify of the object o: the document with the members of o in
\* their order, a member whose value is undefined left out
Stringify(o) ==
    [t |-> "json",
     members |-> [k \in DOMAIN o |->
                    SelectSeq(o[k], LAMBDA m : m.value # Undef)]]

ContentTypeJson == <<Member("Content-Type", Literal("application/json"))>>

\* new Response(body, {status, headers})
Response(body, status, headers) ==
    [body |-> body, status |-> status, headers |-> headers]

\* ErrorResponseBuilder.error
error(e) ==
    Response(Stringify(formatErrorResponse(e)), e.statusCode, ContentTypeJson)

\* ------------------------------------------------------------------------
\* The factory at work: every unit builds one error from its request
\* ------------------------------------------------------------------------

\* the longest list of validation errors handed to the factory
MaxErrors == 3

\* entries as the validators produce them
ErrorEntries ==
    {[field |-> "title", message |-> "Title is required", code |-> "REQUIRED"],
     [field |-> "title", message |-> "Title cannot be empty",
      code |-> "EMPTY_VALUE"],
     [field |-> "content", message |-> "Content is required",
      code |-> "REQUIRED"],
     [field |-> TagField(0), message |-> "Tag ID must be a number",
      code |-> "INVALID_TYPE"]}

SlugChars == <<"u", "1">>

FactoryRequests ==
    {Request("validation", [errors |-> e]) :
        e \in ArraysOf(ErrorEntries, MaxErrors)}
      \cup {Request("notFound", [resource |-> "Post", identifier |-> i]) :
                i \in {Undef, Num(0), Num(7), Str(<<>>), Str(SlugChars)}}
      \cup {Request("duplicateSlug", [slug |-> s]) : s \in {"my-post", ""}}
      \cup {Request("foreignKeyConstraint", [field |-> f, value |-> v]) :
                f \in {"categoryId", "authorId"}, v \in {Num(9), Str(SlugChars)}}
      \cup {Request("database", [message |-> "Database is down",
                                 originalError |-> o]) :
                o \in {Undef, ErrorObject(Undef), ErrorObject(Str(XChars))}}
      \cup {Request("conflict", [message |-> "Already exists", details |-> d]) :
                d \in {NoDetails, Details(<<Entry("slug", <<"taken">>)>>)}}
      \cup {Request("internal", [message |-> m]) :
                m \in {Undef, Str(<<>>), Str(XChars)}}

\* what a collaborator may throw: an Error, an ApiError built in place, or
\* any other value
Thrown ==
    {GenericError(Str(XChars)), GenericError(Str(<<>>)),
     ApiError("I'm a teapot", 418, "TEAPOT", NoDetails),
     ApiError("Validation failed", 400, "VALIDATION_ERROR", NoDetails),
     Undef, Null, Num(7), Str(XChars),
     Obj([message |-> Str(XChars)]),
     Obj([statusCode |-> Num(404), code |-> Str(XChars)])}

FailureRequests ==
    FactoryRequests \cup {Request("throw", [value |-> x]) : x \in Thrown}

\* unit u gets the error e the factory built for its request
Built(u, e) ==
    /\ pc[u] = "ready"
    /\ ret' = [ret EXCEPT ![u] = e]
    /\ pc' = [pc EXCEPT ![u] = "done"]
    /\ UNCHANGED <<errors, req, result, validatedData, held>>
    /\ UNCHANGED <<shared, ErrorVars, UserVars>>

Validation(u) ==
    /\ req[u].kind = "validation"
    /\ Built(u, validation(req[u].data.errors))

NotFound(u) ==
    /\ req[u].kind = "notFound"
    /\ Built(u, notFound(req[u].data.resource, req[u].data.identifier))

DuplicateSlug(u) ==
    /\ req[u].kind = "duplicateSlug"
    /\ Built(u, duplicateSlug(req[u].data.slug))

ForeignKeyConstraint(u) ==
    /\ req[u].kind = "foreignKeyConstraint"
    /\ Built(u, foreignKeyConstraint(req[u].data.field, req[u].data.value))

Database(u) ==
    /\ req[u].kind = "database"
    /\ Built(u, database(req[u].data.message, req[u].data.originalError))

Conflict(u) ==
    /\ req[u].kind = "conflict"
    /\ Built(u, conflict(req[u].data.message, req[u].data.details))

Internal(u) ==
    /\ req[u].kind = "internal"
    /\ Built(u, internal(req[u].data.message))

\* the boundary catches what a collaborator threw
Caught(u) ==
    /\ pc[u] = "ready"
    /\ req[u].kind = "throw"
    /\ ret' = [ret EXCEPT ![u] = req[u].data.value]
    /\ pc' = [pc EXCEPT ![u] = "caught"]
    /\ UNCHANGED <<errors, req, result, validatedData, held>>
    /\ UNCHANGED <<shared, ErrorVars, UserVars>>

\* ErrorUtils.toApiError on the failure unit u holds
ToApiError(u) ==
    /\ pc[u] \in {"done", "caught"}
    /\ classified' = [classified EXCEPT ![u] = toApiError(ret[u])]
    /\ pc' = [pc EXCEPT ![u] = "classified"]
    /\ UNCHANGED <<errors, req, result, validatedData, ret, held>>
    /\ UNCHANGED <<shared, retryable, extracted, response, UserVars>>

\* ErrorResponseBuilder.error on the classified error
ErrorResponse(u) ==
    /\ pc[u] = "classified"
    /\ response' = [response EXCEPT ![u] = error(classified[u])]
    /\ pc' = [pc EXCEPT ![u] = "responded"]
    /\ UNCHANGED <<errors, req, result, validatedData, ret, held>>
    /\ UNCHANGED <<shared, classified, retryable, extracted, UserVars>>

\* ErrorUtils.isRetryableError on the classified error
IsRetryableError(u) ==
    /\ pc[u] = "responded"
    /\ retryable' = [retryable EXCEPT ![u] = isRetryableError(classified[u])]
    /\ pc' = [pc EXCEPT ![u] = "asked"]
    /\ UNCHANGED <<errors, req, result, validatedData, ret, held>>
    /\ UNCHANGED <<shared, classified, extracted, response, UserVars>>

\* ErrorUtils.getValidationErrors on the classified error
GetValidationErrors(u) ==
    /\ pc[u] = "asked"
    /\ extracted' = [extracted EXCEPT ![u] =
                        getValidationErrors(classified[u])]
    /\ pc' = [pc EXCEPT ![u] = "extracted"]
    /\ UNCHANGED <<errors, req, result, validatedData, ret, held>>
    /\ UNCHANGED <<shared, classified, retryable, response, UserVars>>

InitErrors == Start({1}, FailureRequests)

NextErrors ==
    \/ \E u \in DOMAIN pc : Validation(u)
    \/ \E u \in DOMAIN pc : NotFound(u)
    \/ \E u \in DOMAIN pc : DuplicateSlug(u)
    \/ \E u \in DOMAIN pc : ForeignKeyConstraint(u)
    \/ \E u \in DOMAIN pc : Database(u)
    \/ \E u \in DOMAIN pc : Conflict(u)
    \/ \E u \in DOMAIN pc : Internal(u)
    \/ \E u \in DOMAIN pc : Caught(u)
    \/ \E u \in DOMAIN pc : ToApiError(u)
    \/ \E u \in DOMAIN pc : ErrorResponse(u)
    \/ \E u \in DOMAIN pc : IsRetryableError(u)
    \/ \E u \in DOMAIN pc : GetValidationErrors(u)

SpecErrors == InitErrors /\ [][NextErrors]_vars

\* ------------------------------------------------------------------------
\* The Elysia server: POST /user (src/unnamed/part_004, part_002)
\* ------------------------------------------------------------------------

\* the requests in flight at once
NumRequests == 2

Parts == {"part_004", "part_002"}

MailChars == <<"a", "@", "b">>
OtherMailChars == <<"c", "@", "d">>

\* bodies that pass t.Object({ name: t.String(), email: t.String() })
UserBodies ==
    [email : {Str(MailChars), Str(OtherMailChars), Str(<<>>)},
     name : {Str(XChars)}]

\* the rows of the table that carry `email`
RowsWith(rows, email) == {i \in 1..Len(rows) : Get(rows[i], "email") = email}

\* prisma.user.findUnique({ where: { email } }): the row, or null
findUnique(rows, email) ==
    IF RowsWith(rows, email) = {} THEN Null
    ELSE rows[CHOOSE i \in RowsWith(rows, email) : TRUE]

ConstraintChars == <<"P", "2", "0", "0", "2">>

\* prisma.user.create({ data }) on a table whose email column is unique:
\* the row is added, or the call is rejected
create(rows, data) ==
    IF RowsWith(rows, data.email) = {}
    THEN [rows |-> Append(rows, Obj(data)), user |-> Obj(data),
          rejected |-> FALSE]
    ELSE [rows |-> rows, user |-> GenericError(Str(ConstraintChars)),
          rejected |-> TRUE]

\* what a handler run ends with
Returns(v) == [t |-> "returns", value |-> v]
Throws(v) == [t |-> "throws", value |-> v]

ExistsChars ==
    <<"E", "m", "a", "i", "l", " ", "a", "l", "r", "e", "a", "d", "y", " ",
      "e", "x", "i", "s", "t", "s">>

\* String(error) of an Error object: its name, ": ", its message
ErrorChars(caught) ==
    <<"E", "r", "r", "o", "r", ":", " ">> \o caught.message.s

\* the catch clause: `throw new Error(error)` in part_004, `throw new
\* Error()` in part_002
Rethrown(part, caught) ==
    IF part = "part_004" THEN Throws(GenericError(Str(ErrorChars(caught))))
    ELSE Throws(GenericError(Str(<<>>)))

\* `const isExists = await prisma.user.findUnique(...)`
FindUnique(h) ==
    /\ handlers[h].pc = "findUnique"
    /\ handlers' = [handlers EXCEPT
            ![h].isExists = findUnique(users, handlers[h].body.email),
            ![h].pc = "if"]
    /\ UNCHANGED <<users, creates>>
    /\ UNCHANGED <<errors, req, pc, result, validatedData, ret, held>>
    /\ UNCHANGED <<shared, ErrorVars>>

\* `if (isExists?.email)`: part_004 returns the Error, part_002 throws it
\* into its own catch clause
EmailExists(h) ==
    /\ handlers[h].pc = "if"
    /\ ~Falsy(Get(handlers[h].isExists, "email"))
    /\ handlers' = [handlers EXCEPT
            ![h].out = IF handlers[h].part = "part_004"
                       THEN Returns(GenericError(Str(ExistsChars)))
                       ELSE Rethrown(handlers[h].part,
                                     GenericError(Str(ExistsChars))),
            ![h].pc = "done"]
    /\ UNCHANGED <<users, creates>>
    /\ UNCHANGED <<errors, req, pc, result, validatedData, ret, held>>
    /\ UNCHANGED <<shared, ErrorVars>>

\* the else branch: `const user = await prisma.user.create(...)`, then
\* `return user`, or the catch clause when the store rejects the call
Create(h) ==
    /\ handlers[h].pc = "if"
    /\ Falsy(Get(handlers[h].isExists, "email"))
    /\ creates' = Append(creates,
            [by |-> h, email |-> handlers[h].body.email,
             existed |-> RowsWith(users, handlers[h].body.email) # {}])
    /\ users' = create(users, handlers[h].body).rows
    /\ handlers' = [handlers EXCEPT
            ![h].out = IF create(users, handlers[h].body).rejected
                       THEN Rethrown(handlers[h].part,
                                     create(users, handlers[h].body).user)
                       ELSE Returns(create(users, handlers[h].body).user),
            ![h].pc = "done"]
    /\ UNCHANGED <<errors, req, pc, result, validatedData, ret, held>>
    /\ UNCHANGED <<shared, ErrorVars>>

\* one server, an empty table, NumRequests requests accepted
InitUsers ==
    /\ StartUnits({}, {})
    /\ users = <<>>
    /\ creates = <<>>
    /\ \E part \in Parts :
          \E bodies \in [1..NumRequests -> UserBodies] :
              handlers = [h \in 1..NumRequests |->
                            [part |-> part, body |-> bodies[h],
                             isExists |-> Undef, out |-> Pending,
                             pc |-> "findUnique"]]

NextUsers ==
    \/ \E h \in DOMAIN handlers : FindUnique(h)
    \/ \E h \in DOMAIN handlers : EmailExists(h)
    \/ \E h \in DOMAIN handlers : Create(h)

SpecUsers == InitUsers /\ [][NextUsers]_vars

\* ------------------------------------------------------------------------
\* Properties
\* ------------------------------------------------------------------------

Units == DOMAIN pc
Finished(u) == pc[u] = "done"
Kind(u) == req[u].kind
Input(u) == req[u].data
PostKinds == {"createPost", "updatePost"}

\* the errors a result carries
ErrorsOf(r) == IF r.success THEN <<>> ELSE r.errors

\* errs holds an entry for `field` with the reason `code`
HasError(errs, field, code) ==
    \E i \in 1..Len(errs) : errs[i].field = field /\ errs[i].code = code

\* C1: validate() returns either success = true with data and no errors
\* field, or success = false with a non-empty errors list and no data, and
\* it returns success exactly when the call recorded no error.
C1_TaggedResult ==
    \A u \in Units :
        Finished(u) =>
            /\ \/ /\ ret[u].success
                  /\ DOMAIN ret[u] = {"success", "data"}
                  /\ ret[u].data.t = "object"
               \/ /\ ~ret[u].success
                  /\ DOMAIN ret[u] = {"success", "errors"}
                  /\ Len(ret[u].errors) > 0
            /\ ret[u].success <=> Len(errors[Kind(u)]) = 0

C1_Witness ==
    \E u \in Units :
        /\ Finished(u)
        /\ Kind(u) = "queryParams"
        /\ ~ret[u].success
        /\ Len(ret[u].errors) >= 2

\* C4: the create validator fails on an object that misses title, content
\* or categoryId, with a REQUIRED entry for every missing one, whatever the
\* other fields are.
C4_RequiredReported ==
    \A u \in Units :
        Finished(u) /\ Kind(u) = "createPost" /\ ~NotAnObject(Input(u)) =>
            \A f \in {"title", "content", "categoryId"} :
                Get(Input(u), f) = Undef =>
                    /\ ~ret[u].success
                    /\ HasError(ret[u].errors, f, "REQUIRED")

C4_Witness ==
    \E u \in Units :
        /\ Finished(u)
        /\ Kind(u) = "createPost"
        /\ Input(u).t = "object"
        /\ Get(Input(u), "title") = Undef
        /\ Get(Input(u), "content") = Undef
        /\ Get(Input(u), "categoryId") = Undef
        /\ HasError(ret[u].errors, "description", "INVALID_TYPE")
        /\ HasError(ret[u].errors, "categoryId", "REQUIRED")

\* what the tagIds loops reject: not a number, or a number <= 0
BadTag(e) == ~(e.t = "number" /\ ~e.nan) \/ e.twice <= 0

PositiveInteger(e) == IsInteger(e) /\ e.twice > 0

IsArrayValue(v) == v.t = "array"

\* the entries of errs for the elements of an array of n tags
IndexEntries(errs, n) ==
    SelectSeq(errs, LAMBDA e : e.field \in {TagField(i) : i \in 0..(n - 1)})

\* errs reports the rejected elements of a, each once, in ascending index
ReportsBadTags(errs, a) ==
    LET bad == {i \in 1..Len(a) : BadTag(a[i])}
        entries == IndexEntries(errs, Len(a))
    IN  /\ Len(entries) = Cardinality(bad)
        /\ \A p \in 1..Len(entries) :
              LET i == CHOOSE i \in bad : Cardinality({j \in bad : j <= i}) = p
              IN  /\ entries[p].field = TagField(i - 1)
                  /\ entries[p].code =
                        IF a[i].t = "number" /\ ~a[i].nan
                        THEN "INVALID_VALUE" ELSE "INVALID_TYPE"

\* the body d without its tagIds
WithoutTagIds(d) == Obj([k \in DOMAIN d.f \ {"tagIds"} |-> d.f[k]])

\* the body d is accepted once its tagIds are left out
OtherwiseValid(kind, d) ==
    validate(kind, WithoutTagIds(d), NewErrors).ret.success

\* C5 (as claimed): a create body, valid but for its tagIds, whose tagIds
\* hold a positive integer next to invalid elements succeeds with tagIds
\* the positive integers in their order; update gives the same tagIds.
C5_MixedTagIdsSucceed ==
    \A u \in Units :
        /\ Finished(u)
        /\ Kind(u) \in PostKinds
        /\ Input(u).t = "object"
        /\ IsArrayValue(Get(Input(u), "tagIds"))
        /\ \E i \in 1..Len(Get(Input(u), "tagIds").a) :
              PositiveInteger(Get(Input(u), "tagIds").a[i])
        /\ \E i \in 1..Len(Get(Input(u), "tagIds").a) :
              BadTag(Get(Input(u), "tagIds").a[i])
        /\ OtherwiseValid(Kind(u), Input(u))
        => /\ ret[u].success
           /\ Get(ret[u].data, "tagIds") =
                 Arr(SelectSeq(Get(Input(u), "tagIds").a, PositiveInteger))

\* C5 (amended): a create or update body whose tagIds hold an accepted
\* element (a number > 0) next to rejected ones fails without data; its
\* errors hold one entry tagIds[i] per rejected element, in ascending index;
\* the accepted elements, in their order, reach only the local result.
C5_MixedTagIdsFail ==
    \A u \in Units :
        /\ Finished(u)
        /\ Kind(u) \in PostKinds
        /\ Input(u).t = "object"
        /\ IsArrayValue(Get(Input(u), "tagIds"))
        /\ \E i \in 1..Len(Get(Input(u), "tagIds").a) :
              ~BadTag(Get(Input(u), "tagIds").a[i])
        /\ \E i \in 1..Len(Get(Input(u), "tagIds").a) :
              BadTag(Get(Input(u), "tagIds").a[i])
        => /\ ~ret[u].success
           /\ DOMAIN ret[u] = {"success", "errors"}
           /\ ReportsBadTags(ret[u].errors, Get(Input(u), "tagIds").a)
           /\ "tagIds" \in DOMAIN result[u]
           /\ result[u].tagIds =
                 Arr(SelectSeq(Get(Input(u), "tagIds").a,
                               LAMBDA e : ~BadTag(e)))

C5_Witness ==
    \E u \in Units :
        /\ Finished(u)
        /\ Kind(u) = "createPost"
        /\ Input(u) = MixedTagsBody
        /\ ~ret[u].success
        /\ Len(ret[u].errors) = 2

\* a non-empty tagIds array all elements of which the loops reject
AllTagsBad(v) ==
    /\ IsArrayValue(v)
    /\ Len(v.a) > 0
    /\ \A i \in 1..Len(v.a) : BadTag(v.a[i])

\* C6 (as claimed): on a body valid but for tagIds that hold only invalid
\* elements, create reports one tagIds[i] per element and its result has no
\* tagIds; update reports the same and its result carries tagIds: [].
C6_UpdateCarriesEmptyTagIds ==
    \A u \in Units :
        /\ Finished(u)
        /\ Kind(u) \in PostKinds
        /\ Input(u).t = "object"
        /\ AllTagsBad(Get(Input(u), "tagIds"))
        /\ OtherwiseValid(Kind(u), Input(u))
        => /\ ReportsBadTags(ErrorsOf(ret[u]), Get(Input(u), "tagIds").a)
           /\ Kind(u) = "createPost" =>
                 ~("data" \in DOMAIN ret[u]
                      /\ "tagIds" \in DOMAIN ret[u].data.f)
           /\ Kind(u) = "updatePost" =>
                 /\ "data" \in DOMAIN ret[u]
                 /\ Get(ret[u].data, "tagIds") = Arr(<<>>)

\* C6 (amended): on tagIds that hold only rejected elements, create and
\* update both fail without data, reporting one tagIds[i] per element (and
\* nothing else when the rest of the body is valid); the empty filtered
\* array is assigned on update, and no tagIds on create, only in the local
\* result that the failure discards.
C6_AllInvalidTagIds ==
    \A u \in Units :
        /\ Finished(u)
        /\ Kind(u) \in PostKinds
        /\ Input(u).t = "object"
        /\ AllTagsBad(Get(Input(u), "tagIds"))
        => /\ ~ret[u].success
           /\ DOMAIN ret[u] = {"success", "errors"}
           /\ ReportsBadTags(ret[u].errors, Get(Input(u), "tagIds").a)
           /\ OtherwiseValid(Kind(u), Input(u)) =>
                 Len(ret[u].errors) = Len(Get(Input(u), "tagIds").a)
           /\ Kind(u) = "createPost" => "tagIds" \notin DOMAIN result[u]
           /\ Kind(u) = "updatePost" =>
                 /\ "tagIds" \in DOMAIN result[u]
                 /\ result[u].tagIds = Arr(<<>>)

C6_Witness ==
    \E u \in Units :
        /\ Finished(u)
        /\ Kind(u) = "updatePost"
        /\ AllTagsBad(Get(Input(u), "tagIds"))
        /\ Len(Get(Input(u), "tagIds").a) = 2
        /\ OtherwiseValid(Kind(u), Input(u))
        /\ ~ret[u].success
        /\ result[u].tagIds = Arr(<<>>)

\* C7: on create, a categoryId that is a number <= 0 (0 included) gives
\* INVALID_VALUE on categoryId, and one that is present but no number (the
\* empty string included) gives INVALID_TYPE on categoryId.
C7_CategoryIdCodes ==
    \A u \in Units :
        Finished(u) /\ Kind(u) = "createPost" /\ Input(u).t = "object" =>
            LET v == Get(Input(u), "categoryId")
            IN  /\ v.t = "number" /\ ~v.nan /\ v.twice <= 0 =>
                      HasError(ErrorsOf(ret[u]), "categoryId", "INVALID_VALUE")
                /\ v.t \notin {"undefined", "null", "number"} =>
                      HasError(ErrorsOf(ret[u]), "categoryId", "INVALID_TYPE")

\* a create body as the claim calls well-formed
WellFormedCreate(d) ==
    /\ d.t = "object"
    /\ Get(d, "title").t = "string"
    /\ Len(Trim(Get(d, "title").s)) \in 1..TitleMax
    /\ Get(d, "content").t = "string"
    /\ Len(Trim(Get(d, "content").s)) > 0
    /\ PositiveInteger(Get(d, "categoryId"))
    /\ \/ Get(d, "description") = Undef
       \/ /\ Get(d, "description").t = "string"
          /\ Len(Get(d, "description").s) <= DescriptionMax
    /\ \/ Get(d, "readTime") = Undef
       \/ /\ Get(d, "readTime").t = "string"
          /\ Len(Get(d, "readTime").s) <= ReadTimeMax
    /\ \/ Get(d, "coverImageUrl") = Undef
       \/ /\ Get(d, "coverImageUrl").t = "string"
          /\ \/ Get(d, "coverImageUrl").s = <<>>
             \/ /\ UrlParses(Get(d, "coverImageUrl").s)
                /\ Trim(Get(d, "coverImageUrl").s) = Get(d, "coverImageUrl").s
    /\ \/ Get(d, "tagIds") = Undef
       \/ /\ IsArrayValue(Get(d, "tagIds"))
          /\ \A i \in 1..Len(Get(d, "tagIds").a) :
                PositiveInteger(Get(d, "tagIds").a[i])

StringFields == {"title", "content", "description", "coverImageUrl", "readTime"}

\* C8: a well-formed create body succeeds, and every string of the data
\* is the trimmed input string.
C8_WellFormedTrimmed ==
    \A u \in Units :
        Finished(u) /\ Kind(u) = "createPost" /\ WellFormedCreate(Input(u)) =>
            /\ ret[u].success
            /\ \A f \in StringFields :
                  Get(Input(u), f) # Undef =>
                      Get(ret[u].data, f) = Str(Trim(Get(Input(u), f).s))

\* C9: create and update reject a string title with MAX_LENGTH exactly when
\* its length after trimming exceeds 255.
C9_TitleLengthAfterTrim ==
    \A u \in Units :
        /\ Finished(u)
        /\ Kind(u) \in PostKinds
        /\ Input(u).t = "object"
        /\ Get(Input(u), "title").t = "string"
        => (HasError(ErrorsOf(ret[u]), "title", "MAX_LENGTH")
               <=> Len(Trim(Get(Input(u), "title").s)) > TitleMax)

\* C10: when create or update succeeds, the categoryId of the data and
\* every element of its tagIds is a positive integer.
C10_IdsArePositiveIntegers ==
    \A u \in Units :
        Finished(u) /\ Kind(u) \in PostKinds /\ ret[u].success =>
            /\ "categoryId" \in DOMAIN ret[u].data.f =>
                  PositiveInteger(ret[u].data.f.categoryId)
            /\ "tagIds" \in DOMAIN ret[u].data.f =>
                  \A i \in 1..Len(ret[u].data.f.tagIds.a) :
                      PositiveInteger(ret[u].data.f.tagIds.a[i])

\* the result a newly constructed validator returns for the request of u
FreshResult(u) == validate(Kind(u), Input(u), NewErrors).ret

C3_SameAsFresh ==
    \A u \in Units :
        Finished(u) =>
            /\ ret[u] = FreshResult(u)
            /\ held[u] # NoCall /\ held[u].req = req[u] =>
                  ret[u] = held[u].ret

C3_Witness ==
    \E u \in Units :
        /\ Finished(u)
        /\ held[u] # NoCall
        /\ held[u].req.kind = Kind(u)
        /\ ~held[u].ret.success
        /\ ret[u].success
        /\ Input(u) = ValidBody

\* the entries of errs that name `field`
EntriesFor(errs, field) == SelectSeq(errs, LAMBDA e : e.field = field)

\* the codes of the rules of rs = << <<code, fails>>, ... >> that fail
Failing(rs) ==
    LET failed == SelectSeq(rs, LAMBDA r : r[2])
    IN  [i \in 1..Len(failed) |-> failed[i][1]]

\* the rules of field f that the value v fails, each rule taken on its own,
\* in the order REQUIRED, INVALID_TYPE, then the refinements of the field
FailedRules(kind, f, v) ==
    LET present == v # Undef
        str == isString(v)
        required == kind = "createPost" /\ Falsy(v)
        parsed == parseInt(ToStr(v))
        notPositive == present /\ (parsed.nan \/ parsed.twice < 2)
    IN  CASE kind \in PostKinds /\ f = "title" ->
                Failing(<< <<"REQUIRED", required>>,
                           <<"INVALID_TYPE", present /\ ~str>>,
                           <<"EMPTY_VALUE", str /\ Len(Trim(v.s)) = 0>>,
                           <<"MAX_LENGTH", str /\ Len(v.s) > TitleMax>> >>)
          [] kind \in PostKinds /\ f = "content" ->
                Failing(<< <<"REQUIRED", required>>,
                           <<"INVALID_TYPE", present /\ ~str>>,
                           <<"EMPTY_VALUE", str /\ Len(Trim(v.s)) = 0>> >>)
          [] kind \in PostKinds /\ f = "categoryId" ->
                Failing(<< <<"REQUIRED", required>>,
                           <<"INVALID_TYPE", present /\ ~isNumber(v)>>,
                           <<"INVALID_VALUE", isNumber(v) /\ v.twice <= 0>> >>)
          [] kind \in PostKinds /\ f = "description" ->
                Failing(<< <<"INVALID_TYPE", present /\ ~str>>,
                           <<"MAX_LENGTH", str /\ Len(v.s) > DescriptionMax>> >>)
          [] kind \in PostKinds /\ f = "coverImageUrl" ->
                Failing(<< <<"INVALID_TYPE", present /\ ~str>>,
                           <<"INVALID_URL",
                             str /\ Len(v.s) > 0 /\ ~isValidUrl(v.s)>> >>)
          [] kind \in PostKinds /\ f = "tagIds" ->
                Failing(<< <<"INVALID_TYPE", present /\ ~isArray(v)>> >>)
          [] kind \in PostKinds /\ f = "readTime" ->
                Failing(<< <<"INVALID_TYPE", present /\ ~str>>,
                           <<"MAX_LENGTH", str /\ Len(v.s) > ReadTimeMax>> >>)
          [] kind = "queryParams" /\ f \in {"page", "categoryId"} ->
                Failing(<< <<"INVALID_VALUE", notPositive>> >>)
          [] kind = "queryParams" /\ f = "limit" ->
                Failing(<< <<"INVALID_VALUE", notPositive>>,
                           <<"MAX_VALUE",
                             present /\ ~parsed.nan
                                /\ parsed.twice > 2 * LimitMax>> >>)
          [] kind = "queryParams" /\ f = "tagIds" ->
                Failing(<< <<"INVALID_TYPE", present /\ ~str>>,
                           <<"INVALID_VALUE",
                             str /\ Len(parseIntegerArray(v.s)) = 0
                                 /\ Len(Trim(v.s)) > 0>> >>)
          [] kind = "queryParams" /\ f = "authorId" ->
                Failing(<< <<"INVALID_TYPE", present /\ ~str>>,
                           <<"EMPTY_VALUE", str /\ Len(Trim(v.s)) = 0>> >>)
          [] kind = "queryParams" /\ f = "search" ->
                Failing(<< <<"INVALID_TYPE", present /\ ~str>>,
                           <<"MAX_LENGTH", str /\ Len(v.s) > SearchMax>> >>)
          [] kind = "queryParams" /\ f = "sortBy" ->
                Failing(<< <<"INVALID_TYPE", present /\ ~str>>,
                           <<"INVALID_VALUE", str /\ v.s \notin SortByValues>> >>)
          [] kind = "queryParams" /\ f = "sortOrder" ->
                Failing(<< <<"INVALID_TYPE", present /\ ~str>>,
                           <<"INVALID_VALUE",
                             str /\ v.s \notin SortOrderValues>> >>)

\* the rules an element of a tagIds array fails
FailedTagRules(e) ==
    Failing(<< <<"INVALID_TYPE", ~isNumber(e)>>,
               <<"INVALID_VALUE", isNumber(e) /\ e.twice <= 0>> >>)

\* errs holds for `field` the first of the rules `failed` and nothing else
FirstOnly(errs, field, failed) ==
    LET got == EntriesFor(errs, field)
    IN  IF failed = <<>> THEN got = <<>>
        ELSE Len(got) = 1 /\ got[1].code = Head(failed)

FieldsOf(kind) == {FieldOrder(kind)[i] : i \in 1..Len(FieldOrder(kind))}

\* C11: the returned error list holds at most one entry per field name
\* (each tagIds[i] a field of its own), and the entry of a field is the
\* first rule it fails in the order REQUIRED, INVALID_TYPE, refinements.
C11_FirstFailingRule ==
    \A u \in Units :
        Finished(u) =>
            LET errs == ErrorsOf(ret[u])
                tags == Get(Input(u), "tagIds")
            IN  /\ \A i, j \in 1..Len(errs) :
                      errs[i].field = errs[j].field => i = j
                /\ NotAnObject(Input(u)) =>
                      Len(errs) = 1 /\ errs[1].field = "root"
                /\ ~NotAnObject(Input(u)) =>
                      /\ \A f \in FieldsOf(Kind(u)) :
                            FirstOnly(errs, f,
                                FailedRules(Kind(u), f, Get(Input(u), f)))
                      /\ Kind(u) \in PostKinds /\ isArray(tags) =>
                            \A i \in 1..Len(tags.a) :
                                FirstOnly(errs, TagField(i - 1),
                                          FailedTagRules(tags.a[i]))

\* a create body whose empty title fails REQUIRED and EMPTY_VALUE and
\* whose tagIds array begins with a rejected element
C11_Witness ==
    \E u \in Units :
        /\ Finished(u)
        /\ ~ret[u].success
        /\ Kind(u) = "createPost"
        /\ Get(Input(u), "title") = Str(<<>>)
        /\ Len(FailedRules("createPost", "title", Str(<<>>))) = 2
        /\ HasError(ret[u].errors, "title", "REQUIRED")
        /\ isArray(Get(Input(u), "tagIds"))
        /\ HasError(ret[u].errors, TagField(0), "INVALID_VALUE")

\* the entries of errs that belong to the top-level field f of input: the
\* entry named f and, for tagIds, the entries of its indices
OwnEntries(errs, f, input) ==
    LET tags == Get(input, "tagIds")
        names == IF f = "tagIds" /\ isArray(tags)
                 THEN {f} \cup {TagField(i - 1) : i \in 1..Len(tags.a)}
                 ELSE {f}
    IN  SelectSeq(errs, LAMBDA e : e.field \in names)

\* the object that holds field f of input and nothing else
Alone(input, f) ==
    IF Get(input, f) = Undef THEN Obj(EmptyFields)
    ELSE Obj(f :> Get(input, f))

\* C12: for every object input the entries reported for a top-level field
\* are those the validator reports for that field when every other field is
\* taken away, so no field's error depends on the value of another field.
C12_FieldErrorsIndependent ==
    \A u \in Units :
        Finished(u) /\ ~NotAnObject(Input(u)) =>
            \A f \in FieldsOf(Kind(u)) :
                OwnEntries(ErrorsOf(ret[u]), f, Input(u))
                    = OwnEntries(
                        ErrorsOf(validate(Kind(u), Alone(Input(u), f),
                                          NewErrors).ret),
                        f, Input(u))

\* an update body with three offending fields, all reported together
C12_Witness ==
    \E u \in Units :
        /\ Finished(u)
        /\ Kind(u) = "updatePost"
        /\ ~ret[u].success
        /\ HasError(ret[u].errors, "description", "INVALID_TYPE")
        /\ HasError(ret[u].errors, "coverImageUrl", "INVALID_URL")
        /\ HasError(ret[u].errors, "readTime", "MAX_LENGTH")
        /\ Get(Input(u), "title") # Undef

\* the place in the processing order of the field an entry named `name`
\* belongs to, and the index the entry is about (-1 for the field itself)
PlaceOf(kind, input, name) ==
    LET order == FieldOrder(kind)
        pos == CHOOSE i \in 1..Len(order) :
                    Len(OwnEntries(<<[field |-> name]>>, order[i], input)) = 1
        tags == Get(input, "tagIds")
    IN  IF name \in FieldsOf(kind) THEN <<pos, -1>>
        ELSE <<pos, CHOOSE i \in 0..(Len(tags.a) - 1) : name = TagField(i)>>

ComesBefore(p, q) == p[1] < q[1] \/ (p[1] = q[1] /\ p[2] < q[2])

\* C13: in every failure result the errors stand in field processing
\* order, the index entries of tagIds in ascending index.
C13_ProcessingOrder ==
    \A u \in Units :
        Finished(u) /\ ~ret[u].success /\ ~NotAnObject(Input(u)) =>
            \A i, j \in 1..Len(ret[u].errors) :
                i < j =>
                    ComesBefore(
                        PlaceOf(Kind(u), Input(u), ret[u].errors[i].field),
                        PlaceOf(Kind(u), Input(u), ret[u].errors[j].field))

\* a create failure with entries before, inside and after the tagIds array
C13_Witness ==
    \E u \in Units :
        /\ Finished(u)
        /\ ~ret[u].success
        /\ Kind(u) = "createPost"
        /\ HasError(ret[u].errors, "title", "REQUIRED")
        /\ HasError(ret[u].errors, TagField(0), "INVALID_VALUE")
        /\ HasError(ret[u].errors, TagField(1), "INVALID_TYPE")
        /\ HasError(ret[u].errors, "readTime", "MAX_LENGTH")

\* C14: validate() of each validator returns a result for every JSON-like
\* input and lets no exception out.
C14_NeverRaises == \A u \in Units : pc[u] # "thrown"

\* C15: a list-query tagIds string with at least one integer token puts
\* the list of its integers into the result ("1,2,x,3" gives [1, 2, 3]);
\* an empty or whitespace-only string gives no error and no tagIds in the
\* result; any other string gives exactly one INVALID_VALUE entry on tagIds.
C15_QueryTagIdsParsed ==
    \A u \in Units :
        LET tags == Get(Input(u), "tagIds")
            parsed == parseIntegerArray(tags.s)
            errs == EntriesFor(ErrorsOf(ret[u]), "tagIds")
        IN  Finished(u) /\ Kind(u) = "queryParams" /\ isString(tags) =>
                /\ tags.s = TagListChars => parsed = <<Num(1), Num(2), Num(3)>>
                /\ Len(parsed) > 0 =>
                      /\ errs = <<>>
                      /\ ret[u].success =>
                            /\ "tagIds" \in DOMAIN ret[u].data.f
                            /\ ret[u].data.f.tagIds = Arr(parsed)
                /\ Trim(tags.s) = <<>> =>
                      /\ errs = <<>>
                      /\ ret[u].success => "tagIds" \notin DOMAIN ret[u].data.f
                /\ Len(parsed) = 0 /\ Trim(tags.s) # <<>> =>
                      /\ Len(errs) = 1
                      /\ errs[1].code = "INVALID_VALUE"

\* v is an integer n with lo <= n
IntegerFrom(v, lo) == IsInteger(v) /\ v.twice >= 2 * lo

\* C16: on success of the list-query validator page and categoryId are
\* integers >= 1 and limit is an integer from 1 to 100; a limit that parses
\* to more than 100 gets MAX_VALUE, and a page, limit or categoryId that
\* does not parse to an integer >= 1 gets INVALID_VALUE.
C16_QueryNumbersInRange ==
    \A u \in Units :
        Finished(u) /\ Kind(u) = "queryParams" /\ ~NotAnObject(Input(u)) =>
            /\ ret[u].success =>
                  /\ \A f \in {"page", "limit", "categoryId"} :
                        f \in DOMAIN ret[u].data.f =>
                            IntegerFrom(ret[u].data.f[f], 1)
                  /\ "limit" \in DOMAIN ret[u].data.f =>
                        ret[u].data.f.limit.twice <= 2 * LimitMax
            /\ \A f \in {"page", "limit", "categoryId"} :
                  LET parsed == parseInt(ToStr(Get(Input(u), f)))
                      over == f = "limit" /\ ~parsed.nan
                                /\ parsed.twice > 2 * LimitMax
                  IN  Get(Input(u), f) # Undef =>
                        /\ over => HasError(ErrorsOf(ret[u]), f, "MAX_VALUE")
                        /\ ~over /\ ~IntegerFrom(parsed, 1) =>
                              HasError(ErrorsOf(ret[u]), f, "INVALID_VALUE")

\* C17: on success of the list-query validator authorId and search, when
\* in the result, are trimmed strings that are not empty, search of at most
\* 255 characters; a whitespace-only authorId or search is rejected.
C17_QueryStringsNonEmpty ==
    \A u \in Units :
        Finished(u) /\ Kind(u) = "queryParams" /\ ~NotAnObject(Input(u)) =>
            /\ ret[u].success =>
                  /\ \A f \in {"authorId", "search"} :
                        f \in DOMAIN ret[u].data.f =>
                            /\ isString(ret[u].data.f[f])
                            /\ Trim(ret[u].data.f[f].s) = ret[u].data.f[f].s
                            /\ Len(ret[u].data.f[f].s) > 0
                  /\ "search" \in DOMAIN ret[u].data.f =>
                        Len(ret[u].data.f.search.s) <= SearchMax
            /\ \A f \in {"authorId", "search"} :
                  LET v == Get(Input(u), f)
                  IN  isString(v) /\ Len(v.s) > 0 /\ Trim(v.s) = <<>> =>
                        EntriesFor(ErrorsOf(ret[u]), f) # <<>>

\* the names and directions the list query may sort by
AllowedSort(f) ==
    IF f = "sortBy" THEN {PublishedAtChars, CreatedAtChars, TitleChars}
    ELSE {AscChars, DescChars}

\* C18: on success of the list-query validator sortBy is one of
\* publishedAt, createdAt, title and sortOrder one of asc, desc; any other
\* string gets INVALID_VALUE and any non-string INVALID_TYPE on that field.
C18_SortFieldsAllowed ==
    \A u \in Units :
        Finished(u) /\ Kind(u) = "queryParams" /\ ~NotAnObject(Input(u)) =>
            \A f \in {"sortBy", "sortOrder"} :
                LET v == Get(Input(u), f)
                IN  /\ ret[u].success /\ f \in DOMAIN ret[u].data.f =>
                          /\ isString(ret[u].data.f[f])
                          /\ ret[u].data.f[f].s \in AllowedSort(f)
                    /\ isString(v) /\ v.s \notin AllowedSort(f) =>
                          HasError(ErrorsOf(ret[u]), f, "INVALID_VALUE")
                    /\ v # Undef /\ ~isString(v) =>
                          HasError(ErrorsOf(ret[u]), f, "INVALID_TYPE")

\* a successful query sorted by title ascending
C18_Witness ==
    \E u \in Units :
        /\ Finished(u)
        /\ Kind(u) = "queryParams"
        /\ ret[u].success
        /\ Get(Input(u), "sortBy") = Str(TitleChars)
        /\ Get(Input(u), "sortOrder") = Str(AscChars)
        /\ ret[u].data.f.sortBy = Str(TitleChars)
        /\ ret[u].data.f.sortOrder = Str(AscChars)

\* the statusCode and code fixed for the errors of each ErrorFactory method
FixedPair(method) ==
    CASE method = "validation" -> <<400, "VALIDATION_ERROR">>
      [] method = "notFound" -> <<404, "NOT_FOUND">>
      [] method = "conflict" -> <<409, "CONFLICT">>
      [] method = "duplicateSlug" -> <<409, "DUPLICATE_SLUG">>
      [] method = "foreignKeyConstraint" -> <<400, "FOREIGN_KEY_CONSTRAINT">>
      [] method = "database" -> <<500, "DATABASE_ERROR">>
      [] method = "internal" -> <<500, "INTERNAL_ERROR">>

RECURSIVE FirstSeen(_, _, _)
FirstSeen(seq, i, acc) ==
    IF i > Len(seq) THEN acc
    ELSE FirstSeen(seq, i + 1,
            IF \E k \in 1..Len(acc) : acc[k] = seq[i] THEN acc
            ELSE Append(acc, seq[i]))

\* the messages errs holds for `field`, in the order of errs
MessagesOf(errs, field) ==
    LET own == EntriesFor(errs, field)
    IN  [i \in 1..Len(own) |-> own[i].message]

\* C20: ErrorFactory.validation builds details whose fields stand in the
\* order they are first seen in the list, each with its messages in
\* first-seen order and no message twice.
C20_DetailsUnique ==
    \A u \in Units :
        Finished(u) /\ Kind(u) = "validation" =>
            LET errs == Input(u).errors
                fields == FirstSeen([i \in 1..Len(errs) |-> errs[i].field],
                                    1, <<>>)
            IN  ret[u].details =
                    Details([k \in 1..Len(fields) |->
                        Entry(fields[k],
                              FirstSeen(MessagesOf(errs, fields[k]), 1, <<>>))])

\* units whose failure has been through ErrorUtils.toApiError
Classified(u) == pc[u] \notin {"ready", "done", "caught"}

\* C21: toApiError hands back the very ApiError it is given, every field as
\* it was; for an Error that is no ApiError it builds a 500 INTERNAL_ERROR
\* with the message of the Error, and for any other value a 500
\* INTERNAL_ERROR with the message "An unknown error occurred".
C21_ToApiError ==
    \A u \in Units :
        Classified(u) =>
            IF InstanceOf(ret[u], "ApiError")
            THEN classified[u] = ret[u]
            ELSE /\ classified[u].statusCode = 500
                 /\ classified[u].code = "INTERNAL_ERROR"
                 /\ classified[u].message =
                        IF InstanceOf(ret[u], "Error")
                        THEN Text(ret[u].message.s)
                        ELSE "An unknown error occurred"

\* a not-found error of the factory that came back as the object it was
C21_Witness ==
    \E u \in Units :
        /\ Classified(u)
        /\ Kind(u) = "notFound"
        /\ ret[u].name = "NotFoundError"
        /\ classified[u] = ret[u]
        /\ classified[u].stack = "constructed"

\* units whose classified error has been built into a Response
Responded(u) == pc[u] \notin {"ready", "done", "caught", "classified"}

\* the members of the `error` object of a response body
BodyOf(r) == r.body.members.error
KeysOf(members) == [i \in 1..Len(members) |-> members[i].key]

\* the details of e are a mapping with at least one field
HasDetails(e) == e.details # NoDetails /\ e.details.entries # <<>>

\* C22: the body of the response to an ApiError is {error: {message, code}}
\* followed by the key details exactly when the error carries a details
\* mapping that is not empty; without details and with an empty mapping
\* the key is left out.
C22_DetailsOnlyWhenNonEmpty ==
    \A u \in Units :
        Responded(u) =>
            KeysOf(BodyOf(response[u])) =
                IF HasDetails(classified[u])
                THEN <<"message", "code", "details">>
                ELSE <<"message", "code">>

\* the codes of the taxonomy
TaxonomyCodes ==
    {"VALIDATION_ERROR", "NOT_FOUND", "CONFLICT", "DUPLICATE_SLUG",
     "FOREIGN_KEY_CONSTRAINT", "DATABASE_ERROR", "INTERNAL_ERROR"}

\* the value of the member `key` of a body
ValueOf(members, key) ==
    LET at == CHOOSE i \in 1..Len(members) : members[i].key = key
    IN  members[at].value

\* C23: whatever failure is caught, the response built from its
\* classification has a status among 400, 404, 409 and 500 that is the
\* statusCode of the classified error, and a body {error: {message, code,
\* details?}} whose code is one of the taxonomy.
C23_ResponseWithinTaxonomy ==
    \A u \in Units :
        Responded(u) =>
            /\ response[u].status = classified[u].statusCode
            /\ response[u].status \in {400, 404, 409, 500}
            /\ DOMAIN response[u].body.members = {"error"}
            /\ KeysOf(BodyOf(response[u])) \in
                    {<<"message", "code">>, <<"message", "code", "details">>}
            /\ ValueOf(BodyOf(response[u]), "code").text \in TaxonomyCodes

\* C24: a NotFoundError says "<resource> with ID <identifier> not found"
\* whenever an identifier is handed over, 0 and the empty string included,
\* and "<resource> not found" only without one; it is a 404 NOT_FOUND
\* either way.
C24_NotFoundMessage ==
    \A u \in Units :
        Finished(u) /\ Kind(u) = "notFound" =>
            /\ ret[u].message =
                    IF Input(u).identifier = Undef
                    THEN Input(u).resource \o " not found"
                    ELSE Input(u).resource \o " with ID "
                            \o Text(ToStr(Input(u).identifier)) \o " not found"
            /\ ret[u].statusCode = 404
            /\ ret[u].code = "NOT_FOUND"

\* units that have asked isRetryableError about their classified error
Asked(u) == pc[u] \in {"asked", "extracted"}

\* C25: isRetryableError says true exactly for a statusCode of 500 or
\* more: true for every database and internal error, false for every
\* error of status 400, 404 or 409.
C25_RetryableIffServerError ==
    \A u \in Units :
        Asked(u) =>
            /\ retryable[u] = Bool(classified[u].statusCode >= 500)
            /\ classified[u].code \in {"DATABASE_ERROR", "INTERNAL_ERROR"}
                    => retryable[u] = Bool(TRUE)
            /\ classified[u].statusCode \in {400, 404, 409}
                    => retryable[u] = Bool(FALSE)

\* a database error, whose statusCode is exactly 500, found retryable
C25_Witness ==
    \E u \in Units :
        /\ Asked(u)
        /\ Kind(u) = "database"
        /\ classified[u].statusCode = 500
        /\ retryable[u] = Bool(TRUE)

\* units that have extracted the validation errors of their classified error
Extracted(u) == pc[u] = "extracted"

\* the entries of errs that name `field`, as getValidationErrors reports them
ReportedFor(errs, field) ==
    LET own == EntriesFor(errs, field)
    IN  [i \in 1..Len(own) |->
            [field |-> field, message |-> own[i].message,
             code |-> "VALIDATION_ERROR"]]

\* the entries of errs regrouped: field after field in first-seen order
RECURSIVE Regrouped(_, _, _)
Regrouped(errs, fields, i) ==
    IF i > Len(fields) THEN <<>>
    ELSE ReportedFor(errs, fields[i]) \o Regrouped(errs, fields, i + 1)

\* C29: getValidationErrors(ErrorFactory.validation(list)) has one entry
\* for every entry of the list, with its field and its message and the code
\* VALIDATION_ERROR, the entries grouped by field in the order the fields
\* are first seen; for an error of another code, or without details, it is
\* the empty list.
C29_ValidationRoundTrip ==
    \A u \in Units :
        Extracted(u) =>
            IF Kind(u) = "validation"
            THEN LET errs == Input(u).errors
                     fields == FirstSeen([i \in 1..Len(errs) |-> errs[i].field],
                                         1, <<>>)
                 IN  /\ extracted[u] = Regrouped(errs, fields, 1)
                     /\ Len(extracted[u]) = Len(errs)
            ELSE classified[u].code # "VALIDATION_ERROR"
                    \/ classified[u].details = NoDetails
                    => extracted[u] = <<>>

\* a list naming title, content, title: the round trip regroups it and
\* replaces the codes
C29_Witness ==
    \E u \in Units :
        /\ Extracted(u)
        /\ Kind(u) = "validation"
        /\ Len(Input(u).errors) = 3
        /\ Input(u).errors[1].field = "title"
        /\ Input(u).errors[2].field = "content"
        /\ Input(u).errors[3].field = "title"
        /\ Input(u).errors[1].code = "REQUIRED"
        /\ Len(extracted[u]) = 3
        /\ extracted[u][2].field = "title"
        /\ extracted[u][3].field = "content"
        /\ extracted[u][1].code = "VALIDATION_ERROR"

\* payloads that are no object at all: null, undefined, primitives
Primitive(data) ==
    data.t \in {"undefined", "null", "boolean", "number", "string"}

\* C26: handed null, undefined or a primitive as the whole payload, each
\* of the three validators fails with exactly one error, on the field
\* "root" with the code INVALID_TYPE, and reports no field of its own.
C26_MalformedRoot ==
    \A u \in Units :
        Finished(u) /\ Primitive(Input(u)) =>
            /\ ~ret[u].success
            /\ Len(ret[u].errors) = 1
            /\ ret[u].errors[1].field = "root"
            /\ ret[u].errors[1].code = "INVALID_TYPE"
            /\ validatedData[u] = Null

\* the list query handed a string in place of the parameter object
C26_Witness ==
    \E u \in Units :
        /\ Finished(u)
        /\ Kind(u) = "queryParams"
        /\ Input(u) = Str(XChars)
        /\ ~ret[u].success
        /\ Len(ret[u].errors) = 1
        /\ ret[u].errors[1].field = "root"

\* the fields a validator declares
Declared(kind) == {FieldOrder(kind)[i] : i \in 1..Len(FieldOrder(kind))}

\* C28: the data of a success holds only keys the validator declares, and
\* only keys the input holds too; what else the input carries (authorId,
\* slug, id on create) never gets into the data.
C28_DataKeysFromInput ==
    \A u \in Units :
        Finished(u) /\ ret[u].success =>
            /\ DOMAIN ret[u].data.f \subseteq Declared(Kind(u))
            /\ \A k \in DOMAIN ret[u].data.f : Get(Input(u), k) # Undef

\* a create body with authorId, slug and id besides the required fields
C28_Witness ==
    \E u \in Units :
        /\ Finished(u)
        /\ Kind(u) = "createPost"
        /\ Input(u) = ExtraKeysBody
        /\ {"authorId", "slug", "id"} \subseteq DOMAIN Input(u).f
        /\ ret[u].success
        /\ DOMAIN ret[u].data.f = {"title", "content", "categoryId"}

\* C27: a failure a caller got from validate() and kept stays as it was
\* returned, the same entries in the same order, whatever calls the same
\* instance serves afterwards.
C27_ReturnedFailureKept ==
    \A u \in Units :
        held[u] # NoCall /\ ~held[u].returned.success =>
            held[u].ret = held[u].returned

\* a kept failure of the create validator, which has since finished another
\* call that came out differently
C27_Witness ==
    \E u \in Units :
        /\ held[u] # NoCall
        /\ ~held[u].returned.success
        /\ Len(held[u].returned.errors) > 1
        /\ Finished(u)
        /\ Kind(u) = held[u].req.kind
        /\ ErrorsOf(ret[u]) # held[u].returned.errors
        /\ held[u].ret.errors = held[u].returned.errors

\* C30: whatever the interleaving of the POST /user requests, the handler
\* issues a create only while no user with that email exists, and so at
\* most one create for an email.
C30_AtMostOneCreate ==
    \A i \in 1..Len(creates) :
        /\ ~creates[i].existed
        /\ \A j \in 1..Len(creates) :
                creates[j].email = creates[i].email => j = i

====
